---- MODULE Spec2Model ----
(***************************************************************************)
(* Model of the Axiom decision-intelligence core.                          *)
(*                                                                         *)
(*  Part 1  the ML model registry (app/ml/model_registry.py) shared by a   *)
(*          maintenance thread (save / load_latest) and prediction threads *)
(*          (app/ml/prediction_engine.py: predict -> _ml_predict).         *)
(*  Part 2  the two prediction paths as pure functions over exact          *)
(*          rationals.                                                     *)
(*  Part 3  the intelligence services (app/services/benchmarking.py,       *)
(*          trends.py, anomaly.py) over the rows their repository returns. *)
(***************************************************************************)
EXTENDS Integers, Sequences, FiniteSets, TLC

\* ------------------------------------------------------------------ bounds
\* highest version number a directory of models/ may carry
MaxVersion == 10
\* number of save()/load_latest() calls the maintenance thread makes
MaxOps == 2
\* number of threads calling predict()
NumPredictors == 1
\* highest version models/ holds when the server starts under concurrent load
MaxInitial == 1
\* number of writes other requests make to the database during a benchmark
MaxWrites == 1
\* longest weekly series a trend request reads
MaxWeeks == 8

\* most jobs of the scanned days
MaxRecent == 2

\* number of requests the team and billing routes receive
MaxRequests == 2

\* ------------------------------------------------------------- directory names
\* A directory name is a sequence of one-character strings: "v10" is
\* <<"v","1","0">>.
DigitChars == <<"0", "1", "2", "3", "4", "5", "6", "7", "8", "9">>

Digits == {DigitChars[i] : i \in 1..10}

DigitVal(c) == CHOOSE i \in 0..9 : DigitChars[i + 1] = c

RECURSIVE IntToStr(_)
\* f"{n}" of a non-negative integer
IntToStr(n) ==
    IF n < 10 THEN <<DigitChars[n + 1]>>
    ELSE Append(IntToStr(n \div 10), DigitChars[(n % 10) + 1])

\* f"v{n}": the name the training script gives version n
VName(n) == <<"v">> \o IntToStr(n)

RECURSIVE lstrip_v(_)
\* str.lstrip("v"): drops every leading "v"
lstrip_v(s) ==
    IF Len(s) > 0 /\ Head(s) = "v" THEN lstrip_v(Tail(s)) ELSE s

\* str.isdigit(): non-empty and all characters digits
isdigit(s) == Len(s) > 0 /\ \A i \in 1..Len(s) : s[i] \in Digits

RECURSIVE int(_)
\* int(s) of a string of decimal digits
int(s) ==
    IF Len(s) = 0 THEN 0
    ELSE int(SubSeq(s, 1, Len(s) - 1)) * 10 + DigitVal(s[Len(s)])

RECURSIVE StrLess(_, _)
\* Python's < on str (lexicographic by character)
StrLess(a, b) ==
    IF Len(b) = 0 THEN FALSE
    ELSE IF Len(a) = 0 THEN TRUE
    ELSE IF Head(a) # Head(b) THEN
        \* code points: digits sort before letters, letters alphabetically
        LET rank(c) == IF c \in Digits THEN DigitVal(c)
                       ELSE IF c = "m" THEN 10
                       ELSE IF c = "p" THEN 11
                       ELSE IF c = "t" THEN 12
                       ELSE 13
        IN  rank(Head(a)) < rank(Head(b))
    ELSE StrLess(Tail(a), Tail(b))

\* the sort key of a directory ordered by its name as a string: the number of
\* names of the universe below it
LexicalKey(universe, name) == Cardinality({o \in universe : StrLess(o, name)})

\* names without a numeric suffix that may also sit in models/
OtherNames == {<<"t", "m", "p">>, <<"v">>}

DirNames == {VName(n) : n \in 1..MaxVersion} \cup OtherNames

version_key_lexical(name) == LexicalKey(DirNames, name)

\* _version_key of _find_latest_version_dir
_version_key(name) ==
    LET n == lstrip_v(name) IN IF isdigit(n) THEN int(n) ELSE 0

\* ------------------------------------------------------------------ state
VARIABLES
    dirState,   \* models_dir itself: "missing" | "ok" | "unreadable"
    fs,         \* the version directories: name -> state of its three files
    _model,     \* MLModelRegistry._model  (None or the version it belongs to)
    _scaler,    \* MLModelRegistry._scaler
    _meta,      \* MLModelRegistry._meta
    wpc,        \* maintenance thread: position inside save()/load_latest()
    warg,       \* its local: version_dir
    wpre,       \* history: is_loaded() when its current call began
    opCount,    \* history: calls the maintenance thread has begun
    lastDone,   \* history: the last call it finished, and how
    ppc,        \* prediction threads: position inside predict()
    ploc,       \* what get_active() has read so far: _model, _scaler
    pwin,       \* history: "clean" while no save/load overlapped the call
    res         \* the outcome of each thread's last predict()

regVars == <<dirState, fs, _model, _scaler, _meta, wpc, warg, wpre, opCount,
             lastDone, ppc, ploc, pwin, res>>

\* ---- state of the specification of predict() as a function
VARIABLES
    job,      \* the JobFeatureInput of the call
    active,   \* the registry's active estimator, None when nothing is loaded
    out,      \* the MLPredictionOutput, NoOutput before the call
    vector    \* the row build_feature_vector(job) returned, None before the call

predVars == <<job, active, out, vector>>

\* ---- state of a benchmark request against the database
VARIABLES
    db,       \* the jobs and trucks tables, summarised per fleet
    nwrites,  \* history: writes made by other requests
    bpc,      \* get_benchmark(): position inside the call
    bloc,     \* its locals: perf, truck_count
    bres,     \* the BenchmarkResult, NoBenchmark before the call returns
    bhist     \* history: cross-tenant queries issued, fleets aggregated

benchVars == <<db, nwrites, bpc, bloc, bres, bhist>>

\* ---- state of a trend request
VARIABLES
    series,   \* raw: the rows weekly_margin_series() returned
    trend     \* the TrendResult, NoTrend before the call

trendVars == <<series, trend>>

\* ---- state of an anomaly scan
VARIABLES
    stats,    \* the row of the baseline query of fleet_margin_stats()
    recent,   \* the rows recent_jobs_with_stats() returned
    report    \* the AnomalyReport, NoReport before the call

anomVars == <<stats, recent, report>>

\* ---- state of the team and billing routes
VARIABLES
    fleetRow, \* the fleet: subscription_tier and the state of its trial
    users,    \* the users table: membership of the fleet and role
    invites,  \* the team_invites table, in order of creation
    audit,    \* the audit_logs table: the event types, in order
    req,      \* the request each client has in flight
    resp,     \* the last response each client received
    nreq      \* history: requests received

teamVars == <<fleetRow, users, invites, audit, req, resp, nreq>>

vars == <<regVars, predVars, benchVars, trendVars, anomVars, teamVars>>

\* what the actions of one part leave alone
nonRegVars == <<predVars, benchVars, trendVars, anomVars, teamVars>>

nonPredVars == <<regVars, benchVars, trendVars, anomVars, teamVars>>

nonBenchVars == <<regVars, predVars, trendVars, anomVars, teamVars>>

nonTrendVars == <<regVars, predVars, benchVars, anomVars, teamVars>>

nonAnomVars == <<regVars, predVars, benchVars, trendVars, teamVars>>

nonTeamVars == <<regVars, predVars, benchVars, trendVars, anomVars>>

None == <<>>

Predictors == 1..NumPredictors

\* a file of a version directory: absent, readable, or unreadable/corrupt
FileStates == {"none", "ok", "bad"}

ArtifactFiles == {"model", "scaler", "meta"}

CompleteDir == [model |-> "ok", scaler |-> "ok", meta |-> "ok"]

EmptyFs == [n \in {} |-> CompleteDir]

\* models/ holding v1..vk complete, optionally the other names, and
\* optionally one file of the directory vj missing or corrupt
InitialFs(k, extras, j, file, kind) ==
    [n \in {VName(i) : i \in 1..k} \cup (IF extras THEN OtherNames ELSE {}) |->
        IF j >= 1 /\ n = VName(j) /\ file \in ArtifactFiles
        THEN [CompleteDir EXCEPT ![file] = kind]
        ELSE CompleteDir]

\* the states of models/ with v1..vk for k up to maxk, one file of one of the
\* directories vj (the newest only, if topOnly) possibly missing or corrupt
FsFamily(maxk, extrasChoice, topOnly) ==
    {InitialFs(k, extras, 0, "no", "none") :
        k \in 0..maxk, extras \in extrasChoice}
    \cup UNION {
        {InitialFs(k, extras, j, file, kind) :
            j \in (IF topOnly THEN {k} ELSE 1..k), file \in ArtifactFiles, kind \in {"none", "bad"}} :
        k \in 1..maxk, extras \in extrasChoice}


NoOutput == [used_ml_model |-> FALSE, model_version |-> None, none |-> TRUE]

\* kind: "none" | "ok" | "RuntimeError" | "AttributeError"; out: what
\* predict() returned
NoResult == [kind |-> "none", out |-> NoOutput, clean |-> FALSE]

NoCall == [kind |-> "none", version |-> None, result |-> "none", pre |-> FALSE]

\* MLModelRegistry.__init__: nothing loaded, no call made
Constructed ==
    /\ _model = None /\ _scaler = None /\ _meta = None
    /\ wpc = "idle" /\ warg = None /\ wpre = FALSE /\ opCount = 0
    /\ lastDone = NoCall
    /\ ppc = [p \in Predictors |-> "idle"]
    /\ ploc = [p \in Predictors |-> [model |-> None, scaler |-> None]]
    /\ pwin = [p \in Predictors |-> "clean"]
    /\ res = [p \in Predictors |-> NoResult]

\* the server under load: models/ missing, unreadable, or holding up to
\* MaxInitial versions, the newest possibly damaged
RegInit ==
    /\ \/ dirState \in {"missing", "unreadable"} /\ fs = EmptyFs
       \/ dirState = "ok" /\ fs \in FsFamily(MaxInitial, {FALSE}, TRUE)
    /\ Constructed

\* the server some time after start-up: it holds a version it loaded whole,
\* and training runs have written directories since, the newest possibly damaged
ReloadInit ==
    /\ dirState = "ok"
    /\ fs \in FsFamily(MaxInitial + 1, {FALSE}, TRUE)
    /\ \E v \in {n \in DOMAIN fs : fs[n] = CompleteDir} :
           _model = v /\ _scaler = v /\ _meta = v
    /\ wpc = "idle" /\ warg = None /\ wpre = FALSE /\ opCount = 0
    /\ lastDone = NoCall
    /\ ppc = [p \in Predictors |-> "idle"]
    /\ ploc = [p \in Predictors |-> [model |-> None, scaler |-> None]]
    /\ pwin = [p \in Predictors |-> "clean"]
    /\ res = [p \in Predictors |-> NoResult]

\* a start-up scan: models/ holding up to MaxVersion versions and other names
ScanInit ==
    /\ \/ dirState \in {"missing", "unreadable"} /\ fs = EmptyFs
       \/ dirState = "ok" /\ fs \in FsFamily(MaxVersion, BOOLEAN, FALSE)
    /\ Constructed

\* ----------------------------------------------------------- the registry
is_loaded == _model # None

\* the candidates of _find_latest_version_dir: directories holding model.joblib
Candidates(f) == {n \in DOMAIN f : f[n].model # "none"}

\* sorted(candidates, key=_version_key)[-1]: a candidate of greatest key; which
\* one of several with the same key depends on the order iterdir() lists them
_find_latest_version_dir(f) ==
    {n \in Candidates(f) :
        \A o \in Candidates(f) : _version_key(o) <= _version_key(n)}

\* next_version of scripts/train_model.py: v{max+1} over the v<digits> directories
next_version(f) ==
    LET existing == {n \in DOMAIN f :
                        Len(n) > 0 /\ Head(n) = "v" /\ isdigit(Tail(n))}
        nums == {int(Tail(n)) : n \in existing}
    IN  IF existing = {} THEN 1
        ELSE (CHOOSE m \in nums : \A o \in nums : o <= m) + 1

\* a save()/load_latest() begins: every predict() in flight overlaps it
\* (the outcomes recorded in res are those since the last such call began)
Overlapped == [p \in Predictors |-> IF ppc[p] = "idle" THEN pwin[p] ELSE "dirty"]

Finish(kind, version, result) ==
    /\ wpc' = "idle"
    /\ warg' = None
    /\ lastDone' = [kind |-> kind, version |-> version, result |-> result,
                    pre |-> wpre]

\* ---- save(model, scaler, metadata), called by the retraining run
\* version = next_version(models_dir); mkdir; the three dumps
SaveWrite ==
    /\ wpc = "idle" /\ opCount < MaxOps
    /\ dirState # "unreadable"
    /\ next_version(fs) <= MaxVersion
    /\ LET v == VName(next_version(fs)) IN
        /\ fs' = [n \in DOMAIN fs \cup {v} |-> IF n = v THEN CompleteDir ELSE fs[n]]
        /\ warg' = v
    /\ dirState' = "ok"
    /\ wpc' = "save_model"
    /\ wpre' = is_loaded
    /\ opCount' = opCount + 1
    /\ pwin' = Overlapped
    /\ res' = [p \in Predictors |-> NoResult]
    /\ UNCHANGED <<_model, _scaler, _meta, lastDone, ppc, ploc>>
    /\ UNCHANGED nonRegVars

\* self._model = model
SaveSwapModel ==
    /\ wpc = "save_model"
    /\ _model' = warg
    /\ wpc' = "save_scaler"
    /\ UNCHANGED <<dirState, fs, _scaler, _meta, warg, wpre, opCount, lastDone,
                   ppc, ploc, pwin, res>>
    /\ UNCHANGED nonRegVars

\* self._scaler = scaler
SaveSwapScaler ==
    /\ wpc = "save_scaler"
    /\ _scaler' = warg
    /\ wpc' = "save_meta"
    /\ UNCHANGED <<dirState, fs, _model, _meta, warg, wpre, opCount, lastDone,
                   ppc, ploc, pwin, res>>
    /\ UNCHANGED nonRegVars

\* the metadata assignment left out
SaveSwapMetaSkipped ==
    /\ wpc = "save_meta"
    /\ Finish("save", warg, "path")
    /\ UNCHANGED <<dirState, fs, _model, _scaler, _meta, wpre, opCount,
                   ppc, ploc, pwin, res>>
    /\ UNCHANGED nonRegVars

\* self._meta = metadata; return version_dir
SaveSwapMeta ==
    /\ wpc = "save_meta"
    /\ _meta' = warg
    /\ Finish("save", warg, "path")
    /\ UNCHANGED <<dirState, fs, _model, _scaler, wpre, opCount,
                   ppc, ploc, pwin, res>>
    /\ UNCHANGED nonRegVars

\* ---- load_latest()
\* version_dir = self._find_latest_version_dir(), outside the try block
LoadFind ==
    /\ wpc = "idle" /\ opCount < MaxOps
    /\ opCount' = opCount + 1
    /\ pwin' = Overlapped
    /\ wpre' = is_loaded
    /\ IF dirState = "unreadable"
       THEN \* iterdir() raises; nothing catches it
            Finish("load", None, "raised")
       ELSE IF dirState = "missing" \/ _find_latest_version_dir(fs) = {}
       THEN Finish("load", None, "false")
       ELSE /\ \E d \in _find_latest_version_dir(fs) : warg' = d
            /\ wpc' = "load_model"
            /\ UNCHANGED lastDone
    /\ res' = [p \in Predictors |-> NoResult]
    /\ UNCHANGED <<dirState, fs, _model, _scaler, _meta, ppc, ploc>>
    /\ UNCHANGED nonRegVars

\* self._model = joblib.load(version_dir / "model.joblib")
LoadModel ==
    /\ wpc = "load_model"
    /\ IF fs[warg].model = "ok"
       THEN /\ _model' = warg
            /\ wpc' = "load_scaler"
            /\ UNCHANGED <<warg, lastDone>>
       ELSE /\ Finish("load", warg, "false")
            /\ UNCHANGED _model
    /\ UNCHANGED <<dirState, fs, _scaler, _meta, wpre, opCount, ppc, ploc, pwin, res>>
    /\ UNCHANGED nonRegVars

\* a failed load that clears the registry
LoadScalerReset ==
    /\ wpc = "load_scaler"
    /\ IF fs[warg].scaler = "ok"
       THEN /\ _scaler' = warg
            /\ _model' = _model
            /\ wpc' = "load_meta"
            /\ UNCHANGED <<warg, lastDone>>
       ELSE /\ Finish("load", warg, "false")
            /\ _model' = None
            /\ _scaler' = None
    /\ UNCHANGED <<dirState, fs, _meta, wpre, opCount, ppc, ploc, pwin, res>>
    /\ UNCHANGED nonRegVars

\* self._scaler = joblib.load(version_dir / "scaler.joblib")
LoadScaler ==
    /\ wpc = "load_scaler"
    /\ IF fs[warg].scaler = "ok"
       THEN /\ _scaler' = warg
            /\ wpc' = "load_meta"
            /\ UNCHANGED <<warg, lastDone>>
       ELSE /\ Finish("load", warg, "false")
            /\ UNCHANGED _scaler
    /\ UNCHANGED <<dirState, fs, _model, _meta, wpre, opCount, ppc, ploc, pwin, res>>
    /\ UNCHANGED nonRegVars

\* self._meta = ModelMetadata.from_dict(json.load(f)); return True
LoadMeta ==
    /\ wpc = "load_meta"
    /\ IF fs[warg].meta = "ok"
       THEN /\ _meta' = warg
            /\ Finish("load", warg, "true")
       ELSE /\ Finish("load", warg, "false")
            /\ UNCHANGED _meta
    /\ UNCHANGED <<dirState, fs, _model, _scaler, wpre, opCount, ppc, ploc, pwin, res>>
    /\ UNCHANGED nonRegVars

\* ------------------------------------------------- exact rational arithmetic
\* Python floats are modelled by the rationals they approximate: [n, d] with
\* d > 0, in lowest terms.
RECURSIVE GCD(_, _)
GCD(a, b) == IF b = 0 THEN a ELSE GCD(b, a % b)

Abs(x) == IF x < 0 THEN -x ELSE x

Norm(n, d) ==
    LET g == GCD(Abs(n), Abs(d))
        sg == IF d < 0 THEN -1 ELSE 1
    IN  [n |-> (sg * n) \div g, d |-> (sg * d) \div g]

R(i) == [n |-> i, d |-> 1]

Frac(a, b) == Norm(a, b)

\* (sums are taken over the least common denominator, products after
\* cancelling across, so that the integers stay small)
RAdd(x, y) ==
    LET g == GCD(x.d, y.d)
    IN  Norm(x.n * (y.d \div g) + y.n * (x.d \div g), (x.d \div g) * y.d)

RSub(x, y) == RAdd(x, [n |-> -y.n, d |-> y.d])

RMul(x, y) ==
    LET g1 == GCD(Abs(x.n), y.d)
        g2 == GCD(Abs(y.n), x.d)
    IN  IF x.n = 0 \/ y.n = 0 THEN [n |-> 0, d |-> 1]
        ELSE [n |-> (x.n \div g1) * (y.n \div g2),
              d |-> (x.d \div g2) * (y.d \div g1)]

\* x / y, y # 0
RDiv(x, y) ==
    IF y.n > 0 THEN RMul(x, [n |-> y.d, d |-> y.n])
    ELSE IF y.n < 0 THEN RMul(x, [n |-> -y.d, d |-> -y.n])
    ELSE Norm(x.n * y.d, 0)

RLt(x, y) == x.n * y.d < y.n * x.d

RLe(x, y) == x.n * y.d <= y.n * x.d

RGt(x, y) == RLt(y, x)

Zero == R(0)

RECURSIVE RSum(_)
\* sum(q), np.sum(q) of a sequence of numbers
RSum(q) == IF Len(q) = 0 THEN Zero ELSE RAdd(Head(q), RSum(Tail(q)))

\* ------------------------------------------------------- app/ml/features.py
FEATURE_NAMES == <<
    "distance_km", "estimated_duration_hours", "km_per_hour",
    "offered_rate", "rate_per_km", "toll_costs", "toll_ratio", "other_costs",
    "fuel_price_per_unit", "fuel_consumption_per_100km", "fuel_cost_raw",
    "fuel_cost_ratio",
    "maintenance_cost_per_km", "insurance_monthly", "leasing_monthly",
    "fixed_cost_per_km",
    "hourly_rate", "monthly_fixed_cost", "driver_cost_raw",
    "fuel_type_diesel", "fuel_type_electric", "fuel_type_hybrid",
    "fuel_type_petrol" >>

N_FEATURES == Len(FEATURE_NAMES)

\* FEATURE_NAMES.index(name)
FeatureIndex(name) == CHOOSE i \in 1..N_FEATURES : FEATURE_NAMES[i] = name

_AVG_DAILY_KM == 350

_WORKING_DAYS == 22

\* str.lower() on the fuel-type strings of the model
lower(s) ==
    CASE s = "Diesel" -> "diesel"
      [] s = "ELECTRIC" -> "electric"
      [] s = "Hybrid" -> "hybrid"
      [] s = "PETROL" -> "petrol"
      [] s = "LNG" -> "lng"
      [] OTHER -> s

OneHot(b) == IF b THEN R(1) ELSE Zero

\* the ratios guarded against a zero denominator only
build_feature_vector_nonzero(inp) ==
    LET d == inp.distance_km
        dur == inp.estimated_duration_hours
        rate == inp.offered_rate
        km_per_hour == IF dur # Zero THEN RDiv(d, dur) ELSE Zero
        rate_per_km == IF d # Zero THEN RDiv(rate, d) ELSE Zero
        toll_ratio == IF rate # Zero THEN RDiv(inp.toll_costs, rate) ELSE Zero
        fuel_cost_raw == RMul(RMul(RDiv(d, R(100)), inp.fuel_consumption_per_100km),
                              inp.fuel_price_per_unit)
        fuel_cost_ratio == IF rate # Zero THEN RDiv(fuel_cost_raw, rate) ELSE Zero
        fixed_monthly == RAdd(inp.insurance_monthly, inp.leasing_monthly)
        fixed_cost_per_km == RDiv(fixed_monthly, R(_AVG_DAILY_KM * _WORKING_DAYS))
        driver_cost_raw == RMul(inp.hourly_rate, dur)
        ft == IF inp.fuel_type # "" THEN lower(inp.fuel_type) ELSE "diesel"
    IN  << d, dur, km_per_hour,
           rate, rate_per_km, inp.toll_costs, toll_ratio, inp.other_costs,
           inp.fuel_price_per_unit, inp.fuel_consumption_per_100km,
           fuel_cost_raw, fuel_cost_ratio,
           inp.maintenance_cost_per_km, inp.insurance_monthly,
           inp.leasing_monthly, fixed_cost_per_km,
           inp.hourly_rate, inp.monthly_fixed_cost, driver_cost_raw,
           OneHot(ft = "diesel"), OneHot(ft = "electric"),
           OneHot(ft = "hybrid"), OneHot(ft = "petrol") >>

\* build_feature_vector(inp): the row of the (1, N_FEATURES) array
build_feature_vector(inp) ==
    LET d == inp.distance_km
        dur == inp.estimated_duration_hours
        rate == inp.offered_rate
        km_per_hour == IF RGt(dur, Zero) THEN RDiv(d, dur) ELSE Zero
        rate_per_km == IF RGt(d, Zero) THEN RDiv(rate, d) ELSE Zero
        toll_ratio == IF RGt(rate, Zero) THEN RDiv(inp.toll_costs, rate) ELSE Zero
        fuel_cost_raw == RMul(RMul(RDiv(d, R(100)), inp.fuel_consumption_per_100km),
                              inp.fuel_price_per_unit)
        fuel_cost_ratio == IF RGt(rate, Zero) THEN RDiv(fuel_cost_raw, rate) ELSE Zero
        avg_monthly_km == R(_AVG_DAILY_KM * _WORKING_DAYS)
        fixed_monthly == RAdd(inp.insurance_monthly, inp.leasing_monthly)
        fixed_cost_per_km == IF RGt(avg_monthly_km, Zero)
                             THEN RDiv(fixed_monthly, avg_monthly_km) ELSE Zero
        driver_cost_raw == RMul(inp.hourly_rate, dur)
        ft == IF inp.fuel_type # "" THEN lower(inp.fuel_type) ELSE "diesel"
    IN  << d, dur, km_per_hour,
           rate, rate_per_km, inp.toll_costs, toll_ratio, inp.other_costs,
           inp.fuel_price_per_unit, inp.fuel_consumption_per_100km,
           fuel_cost_raw, fuel_cost_ratio,
           inp.maintenance_cost_per_km, inp.insurance_monthly,
           inp.leasing_monthly, fixed_cost_per_km,
           inp.hourly_rate, inp.monthly_fixed_cost, driver_cost_raw,
           OneHot(ft = "diesel"), OneHot(ft = "electric"),
           OneHot(ft = "hybrid"), OneHot(ft = "petrol") >>

\* ------------------------------------------------ app/ml/prediction_engine.py
\* the comparison of the second branch turned round
score_risk_flipped(margin_pct, fuel_ratio) ==
    IF RLt(margin_pct, R(5))
    THEN [risk |-> "high", rec |-> "reject"]
    ELSE IF RGt(margin_pct, R(15)) \/ RGt(fuel_ratio, Frac(1, 2))
    THEN [risk |-> "medium", rec |-> "review"]
    ELSE [risk |-> "low", rec |-> "accept"]

\* _score_risk(margin_pct, fuel_ratio) -> (RiskLevel, JobRecommendation)
_score_risk(margin_pct, fuel_ratio) ==
    IF RLt(margin_pct, R(5))
    THEN [risk |-> "high", rec |-> "reject"]
    ELSE IF RLt(margin_pct, R(15)) \/ RGt(fuel_ratio, Frac(1, 2))
    THEN [risk |-> "medium", rec |-> "review"]
    ELSE [risk |-> "low", rec |-> "accept"]

RECURSIVE SumSeq(_)
SumSeq(q) == IF Len(q) = 0 THEN 0 ELSE Head(q) + SumSeq(Tail(q))

\* _get_feature_importances(model): model.feature_importances_ is None when the
\* estimator has no such attribute, else a sequence of N_FEATURES naturals
_get_feature_importances(model) ==
    IF model.feature_importances_ = None
    THEN [i \in 1..N_FEATURES |-> Frac(1, N_FEATURES)]
    ELSE LET raw == model.feature_importances_
             total == SumSeq(raw)
         IN  IF total = 0
             THEN [i \in 1..N_FEATURES |-> Zero]
             ELSE [i \in 1..N_FEATURES |-> Frac(raw[i], total)]

\* _ml_predict, given what get_active() returned; predicted is the regressor's
\* answer model.predict(scaler.transform(X_raw))[0]
_ml_predict(feature_input, offered_rate, model, meta_version, predicted) ==
    LET X_raw == build_feature_vector(feature_input)
        predicted_net_profit == predicted
        predicted_total_cost == RSub(offered_rate, predicted_net_profit)
        margin_pct == IF RGt(offered_rate, Zero)
                      THEN RMul(RDiv(predicted_net_profit, offered_rate), R(100))
                      ELSE Zero
        importances == _get_feature_importances(model)
        fuel_cost_raw == X_raw[FeatureIndex("fuel_cost_raw")]
        fuel_ratio == IF RGt(offered_rate, Zero)
                      THEN RDiv(fuel_cost_raw, offered_rate) ELSE Zero
        sr == _score_risk(margin_pct, fuel_ratio)
    IN  [predicted_net_profit |-> predicted_net_profit,
         predicted_total_cost |-> predicted_total_cost,
         margin_pct |-> margin_pct,
         risk_level |-> sr.risk,
         recommendation |-> sr.rec,
         feature_importances |-> importances,
         model_version |-> meta_version,
         used_ml_model |-> TRUE,
         \* locals kept for the record
         fuel_cost |-> fuel_cost_raw,
         fuel_ratio |-> fuel_ratio]

\* the subtraction turned round
net_profit_swapped(offered_rate, total_cost) == RSub(total_cost, offered_rate)

\* net_profit = offered_rate - total_cost
net_profit_of(offered_rate, total_cost) == RSub(offered_rate, total_cost)

\* _deterministic_predict
_deterministic_predict(feature_input, offered_rate) ==
    LET fi == feature_input
        d == fi.distance_km
        dur == fi.estimated_duration_hours
        fuel_cost == RMul(RMul(RDiv(d, R(100)), fi.fuel_consumption_per_100km),
                          fi.fuel_price_per_unit)
        driver_cost == RAdd(RMul(fi.hourly_rate, dur),
                            RDiv(fi.monthly_fixed_cost, R(22 * 8)))
        maintenance_cost == RMul(d, fi.maintenance_cost_per_km)
        avg_monthly_km == R(350 * 22)
        fixed_allocation ==
            RMul(RDiv(RAdd(fi.insurance_monthly, fi.leasing_monthly), avg_monthly_km), d)
        total_cost ==
            RAdd(RAdd(RAdd(RAdd(RAdd(fuel_cost, driver_cost), maintenance_cost),
                           fi.toll_costs), fixed_allocation), fi.other_costs)
        net_profit == net_profit_of(offered_rate, total_cost)
        margin_pct == IF RGt(offered_rate, Zero)
                      THEN RMul(RDiv(net_profit, offered_rate), R(100)) ELSE Zero
        fuel_ratio == IF RGt(offered_rate, Zero)
                      THEN RDiv(fuel_cost, offered_rate) ELSE Zero
        sr == _score_risk(margin_pct, fuel_ratio)
        share(c) == IF RGt(total_cost, Zero) THEN RDiv(c, total_cost) ELSE Zero
    IN  [predicted_net_profit |-> net_profit,
         predicted_total_cost |-> total_cost,
         margin_pct |-> margin_pct,
         risk_level |-> sr.risk,
         recommendation |-> sr.rec,
         \* keys fuel_cost_raw, driver_cost_raw, maintenance_cost_per_km
         feature_importances |->
            <<share(fuel_cost), share(driver_cost), share(maintenance_cost)>>,
         model_version |-> None,
         used_ml_model |-> FALSE,
         \* locals kept for the record
         fuel_cost |-> fuel_cost,
         fuel_ratio |-> fuel_ratio]

\* ------------------------------------------- predict() against the registry
\* the job of the end-to-end example, and the answer of a trained regressor
SampleJob ==
    [distance_km |-> R(440), estimated_duration_hours |-> R(6),
     offered_rate |-> R(1200), toll_costs |-> Zero, other_costs |-> Zero,
     fuel_price_per_unit |-> Frac(3, 2), fuel_consumption_per_100km |-> R(30),
     maintenance_cost_per_km |-> Frac(1, 2), insurance_monthly |-> R(500),
     leasing_monthly |-> R(1000), fuel_type |-> "diesel",
     hourly_rate |-> R(25), monthly_fixed_cost |-> R(2000)]

SampleAnswer == R(500)

\* the estimator stored under a version name (its importances play no part here)
Estimator(version) == [version |-> version, feature_importances_ |-> None]

NoLocals == [model |-> None, scaler |-> None]

\* the call returns or raises: its locals are gone
Done(p, kind, output) ==
    /\ ppc' = [ppc EXCEPT ![p] = "idle"]
    /\ ploc' = [ploc EXCEPT ![p] = NoLocals]
    /\ pwin' = [pwin EXCEPT ![p] = "clean"]
    /\ res' = [res EXCEPT ![p] =
                [kind |-> kind, out |-> output, clean |-> pwin[p] = "clean"]]

\* predict(): if registry.is_loaded() ... else self._deterministic_predict(...)
PredictStart(p) ==
    /\ ppc[p] = "idle"
    /\ IF is_loaded
       THEN /\ ppc' = [ppc EXCEPT ![p] = "get_active"]
            /\ pwin' = [pwin EXCEPT ![p] = IF wpc = "idle" THEN "clean" ELSE "dirty"]
            /\ UNCHANGED res
       ELSE /\ UNCHANGED <<ppc, pwin>>
            /\ res' = [res EXCEPT ![p] =
                        [kind |-> "ok",
                         out |-> _deterministic_predict(SampleJob, SampleJob.offered_rate),
                         clean |-> wpc = "idle"]]
    /\ UNCHANGED <<dirState, fs, _model, _scaler, _meta, wpc, warg, wpre, opCount,
                   lastDone, ploc>>
    /\ UNCHANGED nonRegVars

\* get_active(): if not self.is_loaded(): raise RuntimeError
GetActiveCheck(p) ==
    /\ ppc[p] = "get_active"
    /\ IF is_loaded
       THEN /\ ppc' = [ppc EXCEPT ![p] = "read_model"]
            /\ UNCHANGED <<res, ploc, pwin>>
       ELSE Done(p, "RuntimeError", NoOutput)
    /\ UNCHANGED <<dirState, fs, _model, _scaler, _meta, wpc, warg, wpre, opCount,
                   lastDone>>
    /\ UNCHANGED nonRegVars

\* return self._model, self._scaler, self._meta   (three attribute reads)
GetActiveModel(p) ==
    /\ ppc[p] = "read_model"
    /\ ploc' = [ploc EXCEPT ![p].model = _model]
    /\ ppc' = [ppc EXCEPT ![p] = "read_scaler"]
    /\ UNCHANGED <<dirState, fs, _model, _scaler, _meta, wpc, warg, wpre, opCount,
                   lastDone, pwin, res>>
    /\ UNCHANGED nonRegVars

GetActiveScaler(p) ==
    /\ ppc[p] = "read_scaler"
    /\ ploc' = [ploc EXCEPT ![p].scaler = _scaler]
    /\ ppc' = [ppc EXCEPT ![p] = "read_meta"]
    /\ UNCHANGED <<dirState, fs, _model, _scaler, _meta, wpc, warg, wpre, opCount,
                   lastDone, pwin, res>>
    /\ UNCHANGED nonRegVars

\* the last read, then the rest of _ml_predict on the thread's own values:
\* scaler.transform, model.predict, ... meta.version
GetActiveMeta(p) ==
    /\ ppc[p] = "read_meta"
    /\ LET got == [model |-> ploc[p].model, scaler |-> ploc[p].scaler,
                    meta |-> _meta]
       IN  IF got.scaler = None \/ got.meta = None
           THEN \* None has no attribute transform / version
                Done(p, "AttributeError", NoOutput)
           ELSE Done(p, "ok",
                     _ml_predict(SampleJob, SampleJob.offered_rate,
                                 Estimator(got.model), got.meta, SampleAnswer))
    /\ UNCHANGED <<dirState, fs, _model, _scaler, _meta, wpc, warg, wpre, opCount,
                   lastDone>>
    /\ UNCHANGED nonRegVars

\* ------------------------------------------------ predict() as a function
Half == Frac(1, 2)

JobInputs ==
    [distance_km : {Zero, R(100), R(440)},
     estimated_duration_hours : {Zero, R(6)},
     offered_rate : {Zero, R(100), R(1200)},
     toll_costs : {Zero, R(37)},
     other_costs : {Zero, R(20)},
     fuel_price_per_unit : {Frac(3, 2), R(2)},
     fuel_consumption_per_100km : {R(30)},
     maintenance_cost_per_km : {Zero, Half},
     insurance_monthly : {Zero, R(500)},
     leasing_monthly : {Zero, R(1000)},
     fuel_type : {"diesel"},
     hourly_rate : {Zero, R(25)},
     monthly_fixed_cost : {Zero, R(2000)}]

\* estimators: without feature_importances_, with all-zero scores, with scores
TrainedModels ==
    {[version |-> VName(1), feature_importances_ |-> None],
     [version |-> VName(2), feature_importances_ |-> [i \in 1..N_FEATURES |-> 0]],
     [version |-> VName(3),
      feature_importances_ |-> [i \in 1..N_FEATURES |-> IF i <= 3 THEN i ELSE 0]]}

\* answers a regressor may give
RegressorOutputs == {R(-10), Zero, R(3), R(5), R(12), R(15), R(40)}

PredIdle == job = SampleJob /\ active = None /\ out = NoOutput /\ vector = None

RegIdle == dirState = "missing" /\ fs = EmptyFs /\ Constructed

PredInit ==
    /\ job \in JobInputs
    /\ active \in TrainedModels \cup {None}
    /\ out = NoOutput
    /\ vector = None

\* predict() with a model loaded
PredictTrained ==
    /\ out = NoOutput
    /\ active # None
    /\ \E predicted \in RegressorOutputs :
        out' = _ml_predict(job, job.offered_rate, active, active.version, predicted)
    /\ UNCHANGED <<job, active, vector>>
    /\ UNCHANGED nonPredVars

\* predict() with nothing loaded
PredictFallback ==
    /\ out = NoOutput
    /\ active = None
    /\ out' = _deterministic_predict(job, job.offered_rate)
    /\ UNCHANGED <<job, active, vector>>
    /\ UNCHANGED nonPredVars

\* ------------------------------------- build_feature_vector() as a function
\* feature inputs with non-positive distances, durations, rates and costs, and
\* fuel types in other cases, empty, and outside the four the encoding knows
FeatureInputs ==
    [distance_km : {R(-100), Zero, R(440)},
     estimated_duration_hours : {R(-6), Zero, R(6)},
     offered_rate : {R(-100), Zero, R(1200)},
     toll_costs : {Zero, R(37)},
     other_costs : {R(-3000), Zero, R(20)},
     fuel_price_per_unit : {Frac(3, 2)},
     fuel_consumption_per_100km : {R(30)},
     maintenance_cost_per_km : {Half},
     insurance_monthly : {R(500)},
     leasing_monthly : {R(1000)},
     fuel_type : {"diesel", "Diesel", "ELECTRIC", "hybrid", "petrol", "", "lng",
                  "LNG"},
     hourly_rate : {R(25)},
     monthly_fixed_cost : {R(2000)}]

FeatInit ==
    /\ job \in FeatureInputs
    /\ active \in TrainedModels \cup {None}
    /\ out = NoOutput
    /\ vector = None

\* build_feature_vector(inp) called: vector = [...]; return np.array(vector)
BuildFeatureVector ==
    /\ vector = None
    /\ vector' = build_feature_vector(job)
    /\ UNCHANGED <<job, active, out>>
    /\ UNCHANGED nonPredVars

\* ------------------------------------------------------------ Python numbers
Pow10(k) == CASE k = 0 -> 1 [] k = 1 -> 10 [] k = 2 -> 100 [] k = 3 -> 1000

\* round(x, ndigits): the nearest multiple of 10^-ndigits, ties to the even one
round(x, ndigits) ==
    LET scale == Pow10(ndigits)
        twice == 2 * x.n * scale + x.d
        q == twice \div (2 * x.d)
        k == IF twice % (2 * x.d) = 0 /\ q % 2 = 1 THEN q - 1 ELSE q
    IN  Frac(k, scale)

\* int(x) of a float: truncation towards zero
float_to_int(x) == IF x.n >= 0 THEN x.n \div x.d ELSE -((-x.n) \div x.d)

\* math.floor
Floor(x) == x.n \div x.d

Min(a, b) == IF a < b THEN a ELSE b

Max(a, b) == IF a > b THEN a ELSE b

\* an Optional[int] that is not None
Some(v) == <<v>>

\* ------------------------------- app/repositories/intelligence_repository.py
MIN_FLEETS_FOR_BENCHMARK == 3

MIN_JOBS_FOR_TREND == 5

\* the fleets of the database; the request is made by a user of Tenant
Fleets == {"A", "B", "C", "D"}

Tenant == "A"

\* One row per fleet: its active trucks, and its jobs that are accepted or
\* completed with a margin (jobs), all taken to have the same margin_pct,
\* rate per km and cost per km, so that these are also the fleet's averages.
FleetRows(trucks, jobs, margins, costs) ==
    [trucks : trucks, jobs : jobs, margin : margins, rate : {R(3)}, cost : costs]

\* the tables a benchmark is requested on
InitialTables ==
    {[f \in Fleets |-> CASE f = "A" -> a [] f = "B" -> b [] f = "C" -> c
                          [] OTHER -> d] :
        a \in FleetRows({0, 2, 10}, {0, 1, 40}, {R(10), R(20), R(40)}, {R(2), R(3)}),
        b \in FleetRows({2}, {1}, {R(10), R(20)}, {R(2)}),
        c \in FleetRows({2, 10}, {0, 1}, {R(20), R(40)}, {R(2)}),
        d \in FleetRows({2}, {0, 1}, {R(20)}, {R(2)})}

\* fleet_performance_summary(fleet_id): AVG over no row is NULL, read as 0
\* (avg_net_profit, total_revenue and total_profit play no part further on)
fleet_performance_summary(t, fleet_id) ==
    LET row == t[fleet_id]
        avg(col) == IF row.jobs > 0 THEN col ELSE Zero
    IN  [job_count |-> row.jobs,
         avg_margin_pct |-> round(avg(row.margin), 2),
         avg_rate_per_km |-> round(avg(row.rate), 3),
         avg_cost_per_km |-> round(avg(row.cost), 3)]

get_fleet_truck_count(t, fleet_id) == t[fleet_id].trucks

_bucket_filter(bucket, truck_count) ==
    IF bucket = "small" THEN truck_count >= 1 /\ truck_count <= 2
    ELSE IF bucket = "medium" THEN truck_count >= 3 /\ truck_count <= 10
    ELSE truck_count >= 11

fleet_size_to_bucket(truck_count) ==
    IF truck_count <= 2 THEN "small"
    ELSE IF truck_count <= 10 THEN "medium"
    ELSE "large"

\* the per_fleet subquery: the fleets with a row in truck_counts (an active
\* truck), inside the bucket, with a qualifying job
per_fleet(t, fleet_size_bucket) ==
    {f \in Fleets :
        /\ t[f].trucks > 0
        /\ t[f].jobs > 0
        /\ _bucket_filter(fleet_size_bucket, t[f].trucks)}

RECURSIVE Ascending(_, _)
\* the rows of a set of fleets by ascending fleet_avg_margin
Ascending(t, S) ==
    IF S = {} THEN <<>>
    ELSE LET f == CHOOSE f \in S : \A g \in S : RLe(t[f].margin, t[g].margin)
         IN  <<t[f]>> \o Ascending(t, S \ {f})

\* PERCENTILE_CONT(q) WITHIN GROUP (ORDER BY v), np.percentile(v, 100 q):
\* linear interpolation at position q (n - 1) of the sorted values
percentile_cont(q, v) ==
    LET pos == RMul(q, R(Len(v) - 1))
        lo == Floor(pos)
        frac == RSub(pos, R(lo))
    IN  IF lo + 2 > Len(v) THEN v[lo + 1]
        ELSE RAdd(v[lo + 1], RMul(frac, RSub(v[lo + 2], v[lo + 1])))

\* AVG, np.mean
mean(v) == RDiv(RSum(v), R(Len(v)))

\* the gate of the aggregation one fleet lower
industry_percentiles_floor2(t, fleet_size_bucket) ==
    LET rows == Ascending(t, per_fleet(t, fleet_size_bucket))
        n_fleets == Len(rows)
        margins == [i \in 1..n_fleets |-> rows[i].margin]
        rates == [i \in 1..n_fleets |-> rows[i].rate]
        costs == [i \in 1..n_fleets |-> rows[i].cost]
    IN  IF n_fleets < MIN_FLEETS_FOR_BENCHMARK - 1 THEN None
        ELSE [n_fleets |-> n_fleets,
              fleet_size_bucket |-> fleet_size_bucket,
              industry_avg_margin_pct |-> round(mean(margins), 2),
              p25_margin_pct |-> round(percentile_cont(Frac(25, 100), margins), 2),
              p50_margin_pct |-> round(percentile_cont(Frac(50, 100), margins), 2),
              p75_margin_pct |-> round(percentile_cont(Frac(75, 100), margins), 2),
              p90_margin_pct |-> round(percentile_cont(Frac(90, 100), margins), 2),
              industry_avg_rate_per_km |-> round(mean(rates), 3),
              industry_avg_cost_per_km |-> round(mean(costs), 3)]

\* industry_percentiles(fleet_size_bucket) -> Optional[dict]
industry_percentiles(t, fleet_size_bucket) ==
    LET rows == Ascending(t, per_fleet(t, fleet_size_bucket))
        n_fleets == Len(rows)
        margins == [i \in 1..n_fleets |-> rows[i].margin]
        rates == [i \in 1..n_fleets |-> rows[i].rate]
        costs == [i \in 1..n_fleets |-> rows[i].cost]
    IN  IF n_fleets < MIN_FLEETS_FOR_BENCHMARK THEN None
        ELSE [n_fleets |-> n_fleets,
              fleet_size_bucket |-> fleet_size_bucket,
              industry_avg_margin_pct |-> round(mean(margins), 2),
              p25_margin_pct |-> round(percentile_cont(Frac(25, 100), margins), 2),
              p50_margin_pct |-> round(percentile_cont(Frac(50, 100), margins), 2),
              p75_margin_pct |-> round(percentile_cont(Frac(75, 100), margins), 2),
              p90_margin_pct |-> round(percentile_cont(Frac(90, 100), margins), 2),
              industry_avg_rate_per_km |-> round(mean(rates), 3),
              industry_avg_cost_per_km |-> round(mean(costs), 3)]

\* ------------------------------------------------ app/services/benchmarking.py
\* _estimate_percentile(fleet_margin, industry) -> int
_estimate_percentile(fleet_margin, industry) ==
    LET p == << <<0, RSub(industry.p25_margin_pct, R(20))>>,
                <<25, industry.p25_margin_pct>>,
                <<50, industry.p50_margin_pct>>,
                <<75, industry.p75_margin_pct>>,
                <<90, industry.p90_margin_pct>>,
                <<100, RAdd(industry.p90_margin_pct, R(20))>> >>
        inside == {i \in 1..(Len(p) - 1) :
                      RLe(p[i][2], fleet_margin) /\ RLe(fleet_margin, p[i + 1][2])}
    IN  IF inside = {}
        THEN (IF RGt(fleet_margin, p[Len(p)][2]) THEN 100 ELSE 0)
        ELSE LET i == CHOOSE i \in inside : \A j \in inside : i <= j
                 pct_lo == p[i][1]
                 val_lo == p[i][2]
                 pct_hi == p[i + 1][1]
                 val_hi == p[i + 1][2]
             IN  IF val_hi = val_lo THEN pct_lo
                 ELSE LET frac == RDiv(RSub(fleet_margin, val_lo), RSub(val_hi, val_lo))
                      IN  Min(100, Max(0,
                            float_to_int(RAdd(R(pct_lo), RMul(frac, R(pct_hi - pct_lo))))))

\* _generate_insights: each callout by its kind
_generate_insights(fleet, industry, percentile, margin_delta) ==
    << IF percentile >= 75 THEN "top_quartile"
       ELSE IF percentile >= 50 THEN "above_median"
       ELSE IF percentile >= 25 THEN "below_median"
       ELSE "bottom_quartile" >>
    \o (IF RGt(fleet.avg_cost_per_km,
               RMul(industry.industry_avg_cost_per_km, Frac(110, 100)))
        THEN <<"cost_per_km">> ELSE <<>>)
    \o (IF RLt(fleet.avg_rate_per_km,
               RMul(industry.industry_avg_rate_per_km, Frac(90, 100)))
        THEN <<"revenue_per_km">> ELSE <<>>)

NoBenchmark == [insufficient_data |-> FALSE, none |-> TRUE]

NoPerf == [job_count |-> 0, none |-> TRUE]

NoBenchLocals == [perf |-> NoPerf, truck_count |-> 0]

NoQueries == [queries |-> 0, fleets |-> {}]

\* FleetMetrics(...) of get_benchmark
FleetMetrics(perf, truck_count) ==
    [job_count |-> perf.job_count,
     avg_margin_pct |-> perf.avg_margin_pct,
     avg_rate_per_km |-> perf.avg_rate_per_km,
     avg_cost_per_km |-> perf.avg_cost_per_km,
     fleet_size_bucket |-> fleet_size_to_bucket(truck_count),
     truck_count |-> truck_count]

\* the two BenchmarkResult(..., insufficient_data=True) of get_benchmark
Insufficient(fleet_metrics, insight) ==
    [fleet_metrics |-> fleet_metrics,
     industry_context |-> None,
     fleet_percentile |-> None,
     margin_vs_industry |-> None,
     rate_vs_industry |-> None,
     cost_vs_industry |-> None,
     insights |-> <<insight>>,
     insufficient_data |-> TRUE]

\* steps 3 to 5 of get_benchmark and its last return
Benchmark(fleet_metrics, industry) ==
    LET percentile == _estimate_percentile(fleet_metrics.avg_margin_pct, industry)
        margin_delta == round(RSub(fleet_metrics.avg_margin_pct,
                                   industry.industry_avg_margin_pct), 2)
        rate_delta == round(RSub(fleet_metrics.avg_rate_per_km,
                                 industry.industry_avg_rate_per_km), 3)
        cost_delta == round(RSub(fleet_metrics.avg_cost_per_km,
                                 industry.industry_avg_cost_per_km), 3)
    IN  [fleet_metrics |-> fleet_metrics,
         industry_context |-> industry,
         fleet_percentile |-> Some(percentile),
         margin_vs_industry |-> margin_delta,
         rate_vs_industry |-> rate_delta,
         cost_vs_industry |-> cost_delta,
         insights |-> _generate_insights(fleet_metrics, industry, percentile,
                                         margin_delta),
         insufficient_data |-> FALSE]

\* perf = await self.repo.fleet_performance_summary(fleet_id)
BenchSummary ==
    /\ bpc = "idle"
    /\ bloc' = [bloc EXCEPT !.perf = fleet_performance_summary(db, Tenant)]
    /\ bpc' = "truck_count"
    /\ UNCHANGED <<db, nwrites, bres, bhist>>
    /\ UNCHANGED nonBenchVars

\* the zero-job return left out
BenchTruckCountNoColdStart ==
    /\ bpc = "truck_count"
    /\ bloc' = [bloc EXCEPT !.truck_count = get_fleet_truck_count(db, Tenant)]
    /\ bpc' = "industry"
    /\ UNCHANGED <<db, nwrites, bres, bhist>>
    /\ UNCHANGED nonBenchVars

\* truck_count = await self.repo.get_fleet_truck_count(fleet_id); the bucket,
\* the FleetMetrics, and the return of a fleet without jobs
BenchTruckCount ==
    /\ bpc = "truck_count"
    /\ LET truck_count == get_fleet_truck_count(db, Tenant)
           fleet_metrics == FleetMetrics(bloc.perf, truck_count)
       IN  /\ bloc' = [bloc EXCEPT !.truck_count = truck_count]
           /\ IF fleet_metrics.job_count = 0
              THEN /\ bres' = Insufficient(fleet_metrics, "no_accepted_jobs")
                   /\ bpc' = "done"
              ELSE /\ bpc' = "industry"
                   /\ UNCHANGED bres
    /\ UNCHANGED <<db, nwrites, bhist>>
    /\ UNCHANGED nonBenchVars

\* industry_raw = await self.repo.industry_percentiles(bucket), and the rest
\* of get_benchmark
BenchIndustry ==
    /\ bpc = "industry"
    /\ LET fleet_metrics == FleetMetrics(bloc.perf, bloc.truck_count)
           bucket == fleet_metrics.fleet_size_bucket
           industry_raw == industry_percentiles(db, bucket)
       IN  /\ bhist' = [queries |-> bhist.queries + 1,
                        fleets |-> per_fleet(db, bucket)]
           /\ bres' = IF industry_raw = None
                      THEN Insufficient(fleet_metrics, "not_enough_fleets")
                      ELSE Benchmark(fleet_metrics, industry_raw)
    /\ bpc' = "done"
    /\ UNCHANGED <<db, nwrites, bloc>>
    /\ UNCHANGED nonBenchVars

\* ---- other requests, between the queries of the benchmark
\* POST /trucks: a fleet registers one more active truck
CreateTruck ==
    /\ nwrites < MaxWrites
    /\ bpc # "done"
    /\ \E f \in Fleets :
        db' = [db EXCEPT ![f].trucks = @ + 1]
    /\ nwrites' = nwrites + 1
    /\ UNCHANGED <<bpc, bloc, bres, bhist>>
    /\ UNCHANGED nonBenchVars

\* update_status: a job of a fleet becomes accepted, or stops being so
UpdateJobStatus ==
    /\ nwrites < MaxWrites
    /\ bpc # "done"
    /\ \E f \in Fleets :
        db' = [db EXCEPT ![f].jobs = IF @ = 0 THEN 1 ELSE @ - 1]
    /\ nwrites' = nwrites + 1
    /\ UNCHANGED <<bpc, bloc, bres, bhist>>
    /\ UNCHANGED nonBenchVars

\* a database of small fleets with jobs, no request made
BenchIdle ==
    /\ db = [f \in Fleets |->
                [trucks |-> 2, jobs |-> 1, margin |-> R(20), rate |-> R(3),
                 cost |-> R(2)]]
    /\ nwrites = 0
    /\ bpc = "idle"
    /\ bloc = NoBenchLocals
    /\ bres = NoBenchmark
    /\ bhist = NoQueries

BenchInit ==
    /\ db \in InitialTables
    /\ nwrites = 0
    /\ bpc = "idle"
    /\ bloc = NoBenchLocals
    /\ bres = NoBenchmark
    /\ bhist = NoQueries

\* ---- no trend request and no anomaly scan made
NoTrend == [trend |-> "none", none |-> TRUE]

TrendIdle == series = <<>> /\ trend = NoTrend

NoReport == [insufficient_baseline |-> FALSE, none |-> TRUE]

NoStats == [n |-> 0, none |-> TRUE]

AnomIdle == stats = NoStats /\ recent = <<>> /\ report = NoReport

\* ------------------------------------------------------ app/services/trends.py
SLOPE_DECLINING == Frac(-3, 10)

SLOPE_IMPROVING == Frac(3, 10)

MIN_WEEKS_FOR_SIGNAL == 4

MIN_R2_FOR_CONFIDENCE == Frac(35, 100)

\* x * x
Square(x) == RMul(x, x)

\* np.polyfit(x, y, 1) with x = 0, 1, ..., len(y) - 1: the least-squares line
polyfit(y) ==
    LET n == Len(y)
        x == [i \in 1..n |-> R(i - 1)]
        sx == RSum(x)
        sy == RSum(y)
        sxx == RSum([i \in 1..n |-> Square(x[i])])
        sxy == RSum([i \in 1..n |-> RMul(x[i], y[i])])
        slope == RDiv(RSub(RMul(R(n), sxy), RMul(sx, sy)),
                      RSub(RMul(R(n), sxx), Square(sx)))
        intercept == RDiv(RSub(sy, RMul(slope, sx)), R(n))
    IN  [slope |-> slope, intercept |-> intercept]

\* a series without variance scored as a perfect fit
r_squared_perfect(ss_res, ss_tot) ==
    IF RGt(ss_tot, Zero) THEN RSub(R(1), RDiv(ss_res, ss_tot)) ELSE R(1)

\* r2 = 1.0 - (ss_res / ss_tot) if ss_tot > 0 else 0.0
r_squared(ss_res, ss_tot) ==
    IF RGt(ss_tot, Zero) THEN RSub(R(1), RDiv(ss_res, ss_tot)) ELSE Zero

\* the filter on job_count left out
qualifying_all(rows) == rows

\* filtered = [r for r in raw if r["job_count"] >= MIN_JOBS_FOR_TREND]
qualifying(rows) ==
    LET enough(r) == r.job_count >= MIN_JOBS_FOR_TREND
    IN  SelectSeq(rows, enough)

\* the alert of a declining trend raised for every trend that is not flat
alert_on_any_trend(trend_label, confidence) ==
    trend_label # "flat" /\ confidence \in {"high", "medium"}

\* if trend == "declining" and confidence in ("high", "medium"): alert = True
alert_of(trend_label, confidence) ==
    trend_label = "declining" /\ confidence \in {"high", "medium"}

\* "medium" granted on the fit alone, not on the number of weeks
confidence_by_fit(r2, n) ==
    IF RLe(MIN_R2_FOR_CONFIDENCE, r2) /\ n >= 8 THEN "high"
    ELSE IF RLe(Frac(15, 100), r2) THEN "medium"
    ELSE "low"

\* if r2 >= MIN_R2_FOR_CONFIDENCE and len(data_points) >= 8: ... else: "low"
confidence_of(r2, n) ==
    IF RLe(MIN_R2_FOR_CONFIDENCE, r2) /\ n >= 8 THEN "high"
    ELSE IF RLe(Frac(15, 100), r2) \/ n >= MIN_WEEKS_FOR_SIGNAL THEN "medium"
    ELSE "low"

\* detect(fleet_id, weeks), given the rows weekly_margin_series() returned
detect(rows) ==
    LET data_points == qualifying(rows)
        n == Len(data_points)
    IN  IF n < MIN_WEEKS_FOR_SIGNAL
        THEN [trend |-> "unknown",
              slope_pct_per_week |-> None,
              r2 |-> None,
              confidence |-> "insufficient_data",
              alert |-> FALSE,
              alert_message |-> None,
              weeks_analyzed |-> n,
              data_points |-> data_points]
        ELSE LET y == [i \in 1..n |-> data_points[i].avg_margin_pct]
                 fit == polyfit(y)
                 y_pred == [i \in 1..n |->
                               RAdd(RMul(fit.slope, R(i - 1)), fit.intercept)]
                 ss_res == RSum([i \in 1..n |-> Square(RSub(y[i], y_pred[i]))])
                 ss_tot == RSum([i \in 1..n |-> Square(RSub(y[i], mean(y)))])
                 slope == round(fit.slope, 3)
                 r2 == round(r_squared(ss_res, ss_tot), 3)
                 trend_label == IF RLt(slope, SLOPE_DECLINING) THEN "declining"
                                ELSE IF RGt(slope, SLOPE_IMPROVING) THEN "improving"
                                ELSE "flat"
                 confidence == confidence_of(r2, n)
                 alert == alert_of(trend_label, confidence)
                 alert_message ==
                     IF alert THEN Some("margin_declining")
                     ELSE IF trend_label = "improving" /\ confidence = "high"
                     THEN Some("strong_improvement")
                     ELSE None
             IN  [trend |-> trend_label,
                  slope_pct_per_week |-> Some(slope),
                  r2 |-> Some(r2),
                  confidence |-> confidence,
                  alert |-> alert,
                  alert_message |-> alert_message,
                  weeks_analyzed |-> n,
                  data_points |-> data_points]

\* ---- the weekly series a request may read
\* the margin moves by `step` a week from 20%, with a disturbance on top
Disturbance(kind, i) ==
    CASE kind = "none" -> 0
      [] kind = "zigzag" -> IF i % 2 = 0 THEN 1 ELSE -1
      [] kind = "swing" -> IF i % 2 = 0 THEN 4 ELSE -4
      [] kind = "dip" -> IF i = 3 THEN -3 ELSE 0

\* the jobs of week i
JobCount(kind, i) ==
    CASE kind = "busy" -> 6
      [] kind = "quiet" -> 4
      [] kind = "alternate" -> IF i % 2 = 0 THEN 5 ELSE 4
      [] kind = "one_quiet" -> IF i = 2 THEN 0 ELSE 5

WeeklySeries ==
    {[i \in 1..n |->
        [week_start |-> i,
         job_count |-> JobCount(jobs, i),
         avg_margin_pct |-> R(20 + step * (i - 1) + Disturbance(noise, i))]] :
     n \in 0..MaxWeeks,
     step \in {-2, -1, 0, 1},
     noise \in {"none", "zigzag", "swing", "dip"},
     jobs \in {"busy", "quiet", "alternate", "one_quiet"}}

TrendInit == series \in WeeklySeries /\ trend = NoTrend

\* raw = await self.repo.weekly_margin_series(...), and the rest of detect()
Detect ==
    /\ trend = NoTrend
    /\ trend' = detect(series)
    /\ UNCHANGED series
    /\ UNCHANGED nonTrendVars

\* ----------------------------------------------------- app/services/anomaly.py
Z_THRESHOLD_MARGIN == R(2)

Z_THRESHOLD_COST == Frac(5, 2)

MIN_JOBS_FOR_BASELINE == 10

\* Python's `v or default` on a column that may be NULL
OrDefault(v, default) == IF v = None \/ v = Some(Zero) THEN default ELSE v[1]

\* fleet_margin_stats(fleet_id), given the row of the aggregate query
fleet_margin_stats(row) ==
    [mean_margin |-> OrDefault(row.mean_margin, Zero),
     stddev_margin |-> OrDefault(row.stddev_margin, R(1)),
     mean_total_cost |-> OrDefault(row.mean_total_cost, Zero),
     stddev_total_cost |-> OrDefault(row.stddev_total_cost, R(1)),
     n |-> row.n]

RAbs(x) == [n |-> Abs(x.n), d |-> x.d]

\* the anomalies of the margin of one job
margin_anomalies(j, mean_m, std_m) ==
    IF RGt(std_m, Zero)
    THEN LET z_margin == RDiv(RSub(j.margin_pct, mean_m), std_m)
         IN  IF RGt(RAbs(z_margin), Z_THRESHOLD_MARGIN)
             THEN <<[job_id |-> j.job_id,
                     anomaly_type |-> IF RLt(z_margin, Zero)
                                      THEN "margin_outlier"
                                      ELSE "unusually_profitable",
                     severity |-> IF RLt(z_margin, Zero) /\ RGt(RAbs(z_margin), R(3))
                                  THEN "high" ELSE "medium",
                     z_score |-> round(z_margin, 2),
                     actual_value |-> j.margin_pct]>>
             ELSE <<>>
    ELSE <<>>

\* the anomalies of the cost of one job
cost_anomalies(j, mean_c, std_c) ==
    IF j.total_cost # None /\ RGt(std_c, Zero)
    THEN LET z_cost == RDiv(RSub(j.total_cost[1], mean_c), std_c)
         IN  IF RGt(z_cost, Z_THRESHOLD_COST)
             THEN <<[job_id |-> j.job_id,
                     anomaly_type |-> "cost_spike",
                     severity |-> IF RGt(z_cost, Frac(7, 2))
                                  THEN "high" ELSE "medium",
                     z_score |-> round(z_cost, 2),
                     actual_value |-> round(j.total_cost[1], 2)]>>
             ELSE <<>>
    ELSE <<>>

\* key=lambda a: (0 if a.severity == "high" else 1, -abs(a.z_score))
SortsBefore(a, b) ==
    LET rank(x) == IF x.severity = "high" THEN 0 ELSE 1
    IN  \/ rank(a) < rank(b)
        \/ rank(a) = rank(b) /\ RGt(RAbs(a.z_score), RAbs(b.z_score))

\* only the first anomaly of each job kept
RECURSIVE _deduplicate_per_job(_)
_deduplicate_per_job(anomalies) ==
    IF anomalies = <<>> THEN <<>>
    ELSE LET a == Head(anomalies)
             other(b) == b.job_id # a.job_id
         IN  <<a>> \o _deduplicate_per_job(SelectSeq(Tail(anomalies), other))

\* sorted(anomalies, key=...): entries of equal key keep their order
RECURSIVE _deduplicate(_)
_deduplicate(anomalies) ==
    IF anomalies = <<>> THEN <<>>
    ELSE LET rest == _deduplicate(Tail(anomalies))
             a == Head(anomalies)
             RECURSIVE insert(_)
             insert(s) == IF s = <<>> THEN <<a>>
                          ELSE IF SortsBefore(Head(s), a)
                          THEN <<Head(s)>> \o insert(Tail(s))
                          ELSE <<a>> \o s
         IN  insert(rest)

\* the baseline taken as sufficient from 9 jobs on
too_small_below_nine(n_baseline) == n_baseline < MIN_JOBS_FOR_BASELINE - 1

\* if n_baseline < MIN_JOBS_FOR_BASELINE
too_small(n_baseline) == n_baseline < MIN_JOBS_FOR_BASELINE

\* scan_recent(fleet_id, days), given the answers of its two queries
scan_recent(row, recent_jobs) ==
    LET st == fleet_margin_stats(row)
        n_baseline == st.n
        RECURSIVE scan(_)
        scan(i) == IF i > Len(recent_jobs) THEN <<>>
                   ELSE margin_anomalies(recent_jobs[i], st.mean_margin,
                                         st.stddev_margin)
                        \o cost_anomalies(recent_jobs[i], st.mean_total_cost,
                                          st.stddev_total_cost)
                        \o scan(i + 1)
        anomalies == _deduplicate(scan(1))
    IN  IF too_small(n_baseline)
        THEN [n_jobs_scanned |-> Len(recent_jobs),
              n_anomalies |-> 0,
              anomalies |-> <<>>,
              baseline_jobs_count |-> n_baseline,
              insufficient_baseline |-> TRUE]
        ELSE [n_jobs_scanned |-> Len(recent_jobs),
              n_anomalies |-> Len(anomalies),
              anomalies |-> anomalies,
              baseline_jobs_count |-> n_baseline,
              insufficient_baseline |-> FALSE]

\* ---- the tenant's jobs a scan may find
\* the row of the aggregate over the accepted and completed jobs: NULLs when
\* there is none, a standard deviation of 0 when they are all alike
BaselineRows ==
    {[mean_margin |-> None, stddev_margin |-> None, mean_total_cost |-> None,
      stddev_total_cost |-> None, n |-> 0]}
    \cup
    {[mean_margin |-> Some(R(20)), stddev_margin |-> Some(R(sm)),
      mean_total_cost |-> Some(R(1000)), stddev_total_cost |-> Some(R(sc)),
      n |-> n] : sm \in {0, 5}, sc \in {0, 100}, n \in {9, 10, 12}}

\* jobs of the last `days` days with a margin: ordinary ones, ones at and just
\* past each threshold, and extreme ones
RecentKinds ==
    {[margin_pct |-> R(20), total_cost |-> Some(R(1000)), status |-> "completed"],
     [margin_pct |-> R(20), total_cost |-> None, status |-> "pending"],
     [margin_pct |-> R(10), total_cost |-> Some(R(1250)), status |-> "accepted"],
     [margin_pct |-> R(9), total_cost |-> Some(R(1260)), status |-> "completed"],
     [margin_pct |-> R(5), total_cost |-> Some(R(1350)), status |-> "pending"],
     [margin_pct |-> R(4), total_cost |-> Some(R(1400)), status |-> "accepted"],
     [margin_pct |-> R(-150), total_cost |-> Some(R(5000)), status |-> "pending"],
     [margin_pct |-> R(31), total_cost |-> Some(R(900)), status |-> "completed"]}

\* the accepted and completed jobs among the recent ones
InBaseline(jobs) ==
    {i \in 1..Len(jobs) : jobs[i].status \in {"accepted", "completed"}}

RecentJobs ==
    UNION {{[i \in 1..k |->
                [job_id |-> i, margin_pct |-> kinds[i].margin_pct,
                 total_cost |-> kinds[i].total_cost, status |-> kinds[i].status]] :
            kinds \in [1..k -> RecentKinds]} : k \in 0..MaxRecent}

AnomInit ==
    /\ stats \in BaselineRows
    /\ recent \in RecentJobs
    /\ Cardinality(InBaseline(recent)) <= stats.n
    /\ report = NoReport

\* GET /intelligence/anomalies: both queries and the scan
ScanRecent ==
    /\ report = NoReport
    /\ report' = scan_recent(stats, recent)
    /\ UNCHANGED <<stats, recent>>
    /\ UNCHANGED nonAnomVars

\* ------------------------------------- app/api/v1/endpoints/team.py and billing
Users == {"ann", "bob", "cy"}

Clients == {"c1", "c2"}

UserRole == {"owner", "dispatcher", "viewer"}

SubscriptionTier == {"tier1", "tier2", "tier3"}

IntelligenceEndpoints == {"benchmark", "trends", "anomalies", "summary"}

\* TIER_LIMITS[tier]["max_team_members"]
max_team_members(tier) ==
    CASE tier = "tier1" -> 1
      [] tier = "tier2" -> 5
      [] tier = "tier3" -> 999

\* tier_order of require_minimum_tier and upgrade_subscription
tier_order(tier) ==
    CASE tier = "tier1" -> 1
      [] tier = "tier2" -> 2
      [] tier = "tier3" -> 3

\* is_trial_expired(fleet)
is_trial_expired(f) == f.subscription_tier = "tier1" /\ f.trial = "expired"

\* list_members(fleet_id)
list_members(u) == {m \in Users : u[m].fleet}

\* list_invites(fleet_id, status)
list_invites(inv, status) == {i \in 1..Len(inv) : inv[i].status = status}

NoRequest ==
    [op |-> "none", pc |-> "none", actor |-> "none", target |-> "none",
     role |-> "none", invite |-> 0, arg |-> "none"]

NoResponse == [op |-> "none", actor |-> "none", code |-> 0, error |-> "none",
               items |-> {}]

\* the requests a client may send
Requests ==
    {[NoRequest EXCEPT !.op = "update_member_role", !.actor = a, !.target = t,
                       !.role = r] :
        a \in Users, t \in Users, r \in {"owner", "dispatcher"}}
    \cup {[NoRequest EXCEPT !.op = "remove_member", !.actor = a, !.target = t] :
        a \in Users, t \in Users}
    \cup {[NoRequest EXCEPT !.op = "create_invite", !.actor = a, !.target = t,
                            !.role = r] :
        a \in {"ann", "bob"}, t \in {"bob", "cy"}, r \in {"owner", "dispatcher"}}
    \cup {[NoRequest EXCEPT !.op = "accept_invite", !.actor = a, !.invite = i] :
        a \in {"bob", "cy"}, i \in 1..2}
    \cup {[NoRequest EXCEPT !.op = "revoke_invite", !.actor = a, !.invite = i] :
        a \in {"ann", "bob"}, i \in 1..2}
    \cup {[NoRequest EXCEPT !.op = "list_invites", !.actor = a] :
        a \in {"ann", "bob"}}
    \cup {[NoRequest EXCEPT !.op = "upgrade_subscription", !.actor = a,
                            !.arg = t] :
        a \in {"ann", "bob"}, t \in SubscriptionTier}
    \cup {[NoRequest EXCEPT !.op = "get_intelligence", !.actor = a, !.arg = e] :
        a \in {"ann", "cy"}, e \in IntelligenceEndpoints}
    \cup {[NoRequest EXCEPT !.op = "get_audit_log", !.actor = a] :
        a \in {"ann", "bob"}}

\* the routes with dependencies=[Depends(require_owner)]
OwnerOnly ==
    {"update_member_role", "remove_member", "create_invite", "revoke_invite",
     "list_invites", "upgrade_subscription", "get_audit_log"}

\* raise HTTPException(...), or the return of the route
Respond(c, code, error) ==
    /\ resp' = [resp EXCEPT ![c] =
                   [op |-> req[c].op, actor |-> req[c].actor, code |-> code,
                    error |-> error, items |-> {}]]
    /\ req' = [req EXCEPT ![c] = NoRequest]

\* the same for a request that is refused by its dependencies
Refuse(c, r, code, error) ==
    /\ resp' = [resp EXCEPT ![c] =
                   [op |-> r.op, actor |-> r.actor, code |-> code,
                    error |-> error, items |-> {}]]
    /\ UNCHANGED req

\* a request arrives and FastAPI resolves the dependencies of its route:
\* get_current_user, get_current_fleet_user, require_owner, and
\* enforce_team_invite_tier on POST /team/invites
Dependencies(c) ==
    /\ req[c] = NoRequest /\ nreq < MaxRequests
    /\ nreq' = nreq + 1
    /\ \E r \in Requests :
        LET current_user == users[r.actor]
        IN  IF r.op = "accept_invite"
            THEN /\ req' = [req EXCEPT ![c] = [r EXCEPT !.pc = "lookup",
                                !.arg = IF current_user.fleet THEN "member"
                                        ELSE "free"]]
                 /\ UNCHANGED resp
            ELSE IF ~current_user.fleet
            THEN Refuse(c, r, 403, "no_fleet")
            ELSE IF r.op \in OwnerOnly /\ current_user.role # "owner"
            THEN Refuse(c, r, 403, "insufficient_role")
            ELSE IF r.op = "create_invite" /\ is_trial_expired(fleetRow)
            THEN Refuse(c, r, 402, "trial_expired")
            ELSE IF r.op = "create_invite"
                    /\ tier_order(fleetRow.subscription_tier) < tier_order("tier2")
            THEN Refuse(c, r, 403, "tier_required")
            ELSE /\ req' = [req EXCEPT ![c] = [r EXCEPT !.pc = "body"]]
                 /\ UNCHANGED resp
    /\ UNCHANGED <<fleetRow, users, invites, audit>>
    /\ UNCHANGED nonTeamVars

\* PATCH /team/members/{user_id}/role
UpdateMemberRole(c) ==
    /\ req[c].op = "update_member_role" /\ req[c].pc = "body"
    /\ IF req[c].target = req[c].actor
       THEN Respond(c, 400, "own_role") /\ UNCHANGED users
       ELSE IF ~users[req[c].target].fleet
       THEN Respond(c, 404, "member_not_found") /\ UNCHANGED users
       ELSE /\ users' = [users EXCEPT ![req[c].target].role = req[c].role]
            /\ Respond(c, 200, "none")
    /\ UNCHANGED <<fleetRow, invites, audit, nreq>>
    /\ UNCHANGED nonTeamVars

\* DELETE /team/members/{user_id}
RemoveMember(c) ==
    /\ req[c].op = "remove_member" /\ req[c].pc = "body"
    /\ IF req[c].target = req[c].actor
       THEN Respond(c, 400, "remove_self") /\ UNCHANGED users
       ELSE IF ~users[req[c].target].fleet
       THEN Respond(c, 404, "member_not_found") /\ UNCHANGED users
       ELSE /\ users' = [users EXCEPT ![req[c].target] =
                            [fleet |-> FALSE, role |-> "viewer"]]
            /\ Respond(c, 204, "none")
    /\ UNCHANGED <<fleetRow, invites, audit, nreq>>
    /\ UNCHANGED nonTeamVars

\* POST /team/invites up to the seat check and the membership check
CreateInviteCheck(c) ==
    /\ req[c].op = "create_invite" /\ req[c].pc = "body"
    /\ LET members == list_members(users)
           pending == list_invites(invites, "pending")
           total_seats_used == Cardinality(members) + Cardinality(pending)
       IN  IF req[c].role = "owner"
           THEN Respond(c, 400, "owner_invite")
           ELSE IF total_seats_used >= max_team_members(fleetRow.subscription_tier)
           THEN Respond(c, 403, "member_limit")
           ELSE IF req[c].target \in members
           THEN Respond(c, 409, "already_member")
           ELSE /\ req' = [req EXCEPT ![c].pc = "write"]
                /\ UNCHANGED resp
    /\ UNCHANGED <<fleetRow, users, invites, audit, nreq>>
    /\ UNCHANGED nonTeamVars

\* TeamRepository.create_invite: a pending invite to the same email is
\* revoked, the new invite is added
CreateInviteWrite(c) ==
    /\ req[c].op = "create_invite" /\ req[c].pc = "write"
    /\ LET existing == {i \in list_invites(invites, "pending") :
                           invites[i].email = req[c].target}
       IN  IF Cardinality(existing) > 1
           THEN Respond(c, 500, "multiple_results") /\ UNCHANGED invites
           ELSE /\ invites' =
                    [i \in 1..Len(invites) |->
                        IF i \in existing
                        THEN [invites[i] EXCEPT !.status = "revoked"]
                        ELSE invites[i]]
                    \o <<[email |-> req[c].target, role |-> req[c].role,
                          status |-> "pending", past_expiry |-> FALSE]>>
                /\ Respond(c, 201, "none")
    /\ UNCHANGED <<fleetRow, users, audit, nreq>>
    /\ UNCHANGED nonTeamVars

\* POST /team/invites/accept up to the call of TeamRepository.accept_invite
AcceptInviteLookup(c) ==
    /\ req[c].op = "accept_invite" /\ req[c].pc = "lookup"
    /\ LET i == req[c].invite
       IN  IF req[c].arg = "member"
           THEN Respond(c, 409, "already_in_fleet") /\ UNCHANGED invites
           ELSE IF i > Len(invites)
           THEN Respond(c, 400, "invalid_token") /\ UNCHANGED invites
           ELSE IF invites[i].status # "pending"
           THEN Respond(c, 400, invites[i].status) /\ UNCHANGED invites
           ELSE IF invites[i].past_expiry
           THEN /\ invites' = [invites EXCEPT ![i].status = "expired"]
                /\ Respond(c, 400, "expired")
           ELSE IF invites[i].email # req[c].actor
           THEN Respond(c, 403, "other_email") /\ UNCHANGED invites
           ELSE /\ req' = [req EXCEPT ![c].pc = "commit"]
                /\ UNCHANGED <<resp, invites>>
    /\ UNCHANGED <<fleetRow, users, audit, nreq>>
    /\ UNCHANGED nonTeamVars

\* TeamRepository.accept_invite(invite, user), on the invite loaded before
AcceptInviteCommit(c) ==
    /\ req[c].op = "accept_invite" /\ req[c].pc = "commit"
    /\ LET i == req[c].invite
       IN  IF invites[i].past_expiry
           THEN /\ invites' = [invites EXCEPT ![i].status = "expired"]
                /\ UNCHANGED users
           ELSE /\ users' = [users EXCEPT ![req[c].actor] =
                                [fleet |-> TRUE, role |-> invites[i].role]]
                /\ invites' = [invites EXCEPT ![i].status = "accepted"]
    /\ Respond(c, 200, "none")
    /\ UNCHANGED <<fleetRow, audit, nreq>>
    /\ UNCHANGED nonTeamVars

\* DELETE /team/invites/{invite_id} and TeamRepository.revoke_invite
RevokeInvite(c) ==
    /\ req[c].op = "revoke_invite" /\ req[c].pc = "body"
    /\ IF req[c].invite > Len(invites)
       THEN Respond(c, 404, "invite_not_found") /\ UNCHANGED invites
       ELSE /\ invites' = [invites EXCEPT ![req[c].invite].status = "revoked"]
            /\ Respond(c, 204, "none")
    /\ UNCHANGED <<fleetRow, users, audit, nreq>>
    /\ UNCHANGED nonTeamVars

\* GET /team/invites: expire_stale_invites, then the list
ListInvites(c) ==
    /\ req[c].op = "list_invites" /\ req[c].pc = "body"
    /\ invites' = [i \in 1..Len(invites) |->
                      IF invites[i].status = "pending" /\ invites[i].past_expiry
                      THEN [invites[i] EXCEPT !.status = "expired"]
                      ELSE invites[i]]
    /\ Respond(c, 200, "none")
    /\ UNCHANGED <<fleetRow, users, audit, nreq>>
    /\ UNCHANGED nonTeamVars

\* POST /fleets/me/upgrade
UpgradeSubscription(c) ==
    /\ req[c].op = "upgrade_subscription" /\ req[c].pc = "body"
    /\ IF req[c].arg \notin {"tier2", "tier3"}
       THEN Respond(c, 400, "invalid_tier") /\ UNCHANGED fleetRow
       ELSE IF tier_order(req[c].arg) <= tier_order(fleetRow.subscription_tier)
       THEN Respond(c, 400, "no_downgrade") /\ UNCHANGED fleetRow
       ELSE /\ fleetRow' = [subscription_tier |-> req[c].arg, trial |-> "none"]
            /\ Respond(c, 200, "none")
    /\ UNCHANGED <<users, invites, audit, nreq>>
    /\ UNCHANGED nonTeamVars

\* GET /intelligence/benchmark, /trends, /anomalies, /summary: the service is
\* called and its result returned
GetIntelligence(c) ==
    /\ req[c].op = "get_intelligence" /\ req[c].pc = "body"
    /\ Respond(c, 200, "none")
    /\ UNCHANGED <<fleetRow, users, invites, audit, nreq>>
    /\ UNCHANGED nonTeamVars

\* GET /billing/audit
GetAuditLog(c) ==
    /\ req[c].op = "get_audit_log" /\ req[c].pc = "body"
    /\ resp' = [resp EXCEPT ![c] =
                   [op |-> req[c].op, actor |-> req[c].actor, code |-> 200,
                    error |-> "none",
                    items |-> {audit[k] : k \in 1..Len(audit)}]]
    /\ req' = [req EXCEPT ![c] = NoRequest]
    /\ UNCHANGED <<fleetRow, users, invites, audit, nreq>>
    /\ UNCHANGED nonTeamVars

\* the Stripe webhook customer.subscription.deleted
SubscriptionCancelled ==
    /\ nreq < MaxRequests
    /\ nreq' = nreq + 1
    /\ fleetRow' = [fleetRow EXCEPT !.subscription_tier = "tier1"]
    /\ audit' = Append(audit, "stripe.subscription_cancelled")
    /\ UNCHANGED <<users, invites, req, resp>>
    /\ UNCHANGED nonTeamVars

\* seven days pass since a pending invite was created
InviteExpiryPasses ==
    /\ \E i \in list_invites(invites, "pending") :
        /\ ~invites[i].past_expiry
        /\ invites' = [invites EXCEPT ![i].past_expiry = TRUE]
    /\ UNCHANGED <<fleetRow, users, audit, req, resp, nreq>>
    /\ UNCHANGED nonTeamVars

\* ---- the fleets a request may meet
\* ann founded the fleet; bob has joined it or not, and may have been promoted;
\* cy has an account and may hold a pending invite
TeamInit ==
    /\ fleetRow \in
         {[subscription_tier |-> "tier1", trial |-> t] : t \in {"active", "expired"}}
         \cup {[subscription_tier |-> t, trial |-> "none"] : t \in SubscriptionTier}
    /\ \E b \in {[fleet |-> FALSE, role |-> "owner"],
                 [fleet |-> TRUE, role |-> "dispatcher"],
                 [fleet |-> TRUE, role |-> "owner"]} :
         users = [u \in Users |->
                    IF u = "ann" THEN [fleet |-> TRUE, role |-> "owner"]
                    ELSE IF u = "bob" THEN b
                    ELSE [fleet |-> FALSE, role |-> "owner"]]
    /\ Cardinality(list_members(users)) <= max_team_members(fleetRow.subscription_tier)
    /\ invites \in
         {<<>>} \cup
         (IF Cardinality(list_members(users))
               < max_team_members(fleetRow.subscription_tier)
          THEN {<<[email |-> "cy", role |-> "dispatcher", status |-> "pending",
                   past_expiry |-> FALSE]>>}
          ELSE {})
    /\ audit = <<>>
    /\ req = [c \in Clients |-> NoRequest]
    /\ resp = [c \in Clients |-> NoResponse]
    /\ nreq = 0

TeamIdle ==
    /\ fleetRow = [subscription_tier |-> "tier1", trial |-> "none"]
    /\ users = [u \in Users |-> [fleet |-> FALSE, role |-> "owner"]]
    /\ invites = <<>>
    /\ audit = <<>>
    /\ req = [c \in Clients |-> NoRequest]
    /\ resp = [c \in Clients |-> NoResponse]
    /\ nreq = 0

\* --------------------------------------------------------- specifications
Save == SaveWrite \/ SaveSwapModel \/ SaveSwapScaler \/ SaveSwapMeta

LoadLatest == LoadFind \/ LoadModel \/ LoadScaler \/ LoadMeta

Predict ==
    \E p \in Predictors :
        \/ PredictStart(p) \/ GetActiveCheck(p) \/ GetActiveModel(p)
        \/ GetActiveScaler(p) \/ GetActiveMeta(p)

\* the parts a specification leaves idle
IntelIdle == BenchIdle /\ TrendIdle /\ AnomIdle /\ TeamIdle

Init == RegInit /\ PredIdle /\ IntelIdle

InitScan == ScanInit /\ PredIdle /\ IntelIdle

InitPredict == RegIdle /\ PredInit /\ IntelIdle

Next == Save \/ LoadLatest \/ Predict

\* the registry under one maintenance thread and the prediction threads
Spec == Init /\ [][Next]_vars

ScanNext == Save \/ LoadLatest

\* the maintenance thread alone, on every models/ of ScanInit
SpecScan == InitScan /\ [][ScanNext]_vars

InitReload == ReloadInit /\ PredIdle /\ IntelIdle

ReloadNext == LoadLatest \/ Predict

\* load_latest() on a registry that holds a version, under predictions
SpecReload == InitReload /\ [][ReloadNext]_vars

PredNext == PredictTrained \/ PredictFallback

\* the prediction paths on every job of JobInputs
SpecPredict == InitPredict /\ [][PredNext]_vars

InitFeatures == RegIdle /\ FeatInit /\ IntelIdle

InitBenchmark ==
    RegIdle /\ PredIdle /\ BenchInit /\ TrendIdle /\ AnomIdle /\ TeamIdle

GetBenchmark == BenchSummary \/ BenchTruckCount \/ BenchIndustry

BenchNext == GetBenchmark \/ CreateTruck \/ UpdateJobStatus

\* one benchmark request, and the writes of other requests meanwhile
SpecBenchmark == InitBenchmark /\ [][BenchNext]_vars

InitTrend ==
    RegIdle /\ PredIdle /\ BenchIdle /\ TrendInit /\ AnomIdle /\ TeamIdle

TrendNext == Detect

\* one trend request on every series of WeeklySeries
SpecTrend == InitTrend /\ [][TrendNext]_vars

InitAnomaly ==
    RegIdle /\ PredIdle /\ BenchIdle /\ TrendIdle /\ AnomInit /\ TeamIdle

InitTeam ==
    RegIdle /\ PredIdle /\ BenchIdle /\ TrendIdle /\ AnomIdle /\ TeamInit

TeamMembers ==
    \E c \in Clients : UpdateMemberRole(c) \/ RemoveMember(c)

TeamInvites ==
    \E c \in Clients :
        \/ CreateInviteCheck(c) \/ CreateInviteWrite(c)
        \/ AcceptInviteLookup(c) \/ AcceptInviteCommit(c)
        \/ RevokeInvite(c) \/ ListInvites(c)

Billing ==
    \/ \E c \in Clients : UpgradeSubscription(c) \/ GetAuditLog(c)
    \/ SubscriptionCancelled

Intelligence == \E c \in Clients : GetIntelligence(c)

Arrival == \E c \in Clients : Dependencies(c)

TeamNext ==
    Arrival \/ TeamMembers \/ TeamInvites \/ Billing \/ Intelligence
        \/ InviteExpiryPasses

\* the team, billing and intelligence routes under two concurrent clients
SpecTeam == InitTeam /\ [][TeamNext]_vars

AnomalyNext == ScanRecent

\* one anomaly scan on every baseline and every list of recent jobs
SpecAnomaly == InitAnomaly /\ [][AnomalyNext]_vars

FeatNext == BuildFeatureVector \/ PredictTrained \/ PredictFallback

\* the feature vector and the prediction paths on every input of FeatureInputs
SpecFeatures == InitFeatures /\ [][FeatNext]_vars

\* ================================================================= claims
Complete(f) == {n \in DOMAIN f : \A file \in ArtifactFiles : f[n][file] # "none"}

Readable(f, n) == \A file \in ArtifactFiles : f[n][file] = "ok"

Holds(v) == _model = v /\ _scaler = v /\ _meta = v

\* the maintenance thread is between calls and its last call was a load_latest()
AfterLoad == wpc = "idle" /\ lastDone.kind = "load"

\* ... was a save()
AfterSave == wpc = "idle" /\ lastDone.kind = "save"

\* C1: whatever save() does meanwhile, the (model, scaler, metadata) that
\* get_active() returns to a prediction belong to one version.
C1_AtomicTriple ==
    [][\A p \in Predictors :
        (ppc[p] = "read_meta" /\ ppc'[p] = "idle")
            => (ploc[p].model = ploc[p].scaler /\ ploc[p].scaler = _meta)]_vars

\* C2: load_latest() never raises; a load that fails on a registry with no
\* model leaves is_loaded() false, and the predictions that follow take the
\* fallback path without error.
C2_LoadNeverRaises ==
    AfterLoad =>
        /\ lastDone.result # "raised"
        /\ (lastDone.result = "false" /\ ~lastDone.pre) =>
            /\ ~is_loaded
            /\ \A p \in Predictors :
                (res[p].kind # "none" /\ res[p].clean)
                    => (res[p].kind = "ok" /\ ~res[p].out.used_ml_model)

\* C3: load_latest() activates the highest-numbered directory that holds all
\* three artifact files, passing over higher ones with a file missing.
C3_HighestComplete ==
    AfterLoad =>
        \A i \in 1..MaxVersion :
            ( /\ VName(i) \in Complete(fs)
              /\ Readable(fs, VName(i))
              /\ \A j \in (i + 1)..MaxVersion : VName(j) \notin Complete(fs) )
            => (lastDone.result = "true" /\ Holds(VName(i)))

\* C4: the directory load_latest() picks is the one of greatest number, by the
\* value of the number and not by the order of the names as strings: no
\* candidate v<i> has i above the number of the directory picked, and with
\* v1..v10 in place a successful load activates v10.
C4_NumericOrder ==
    (AfterLoad /\ lastDone.version # None) =>
        /\ \A i \in 1..MaxVersion :
            VName(i) \in Candidates(fs)
                => \E j \in i..MaxVersion : lastDone.version = VName(j)
        /\ lastDone.result = "true" => Holds(lastDone.version)

C4_Witness ==
    /\ AfterLoad /\ lastDone.result = "true"
    /\ {VName(i) : i \in 1..10} \subseteq Candidates(fs)
    /\ VName(11) \notin DOMAIN fs
    /\ Holds(VName(10))

C6_NoNotLoaded == \A p \in Predictors : res[p].kind # "RuntimeError"

\* a prediction that passed both checks although a load_latest() failed
\* while it was under way
C6_Witness ==
    \E p \in Predictors :
        /\ ppc[p] = "read_model" /\ pwin[p] = "dirty"
        /\ AfterLoad /\ lastDone.result = "false"

\* ---- the prediction paths (SpecPredict)
Predicted == out # NoOutput

Rate == job.offered_rate

\* C7: on both paths predicted_total_cost + predicted_net_profit is the
\* offered rate, and margin_pct is predicted_net_profit / offered_rate * 100
\* when the offered rate is positive.
C7_CostPlusProfit ==
    Predicted =>
        /\ RAdd(out.predicted_total_cost, out.predicted_net_profit) = Rate
        /\ RGt(Rate, Zero)
            => RMul(out.margin_pct, Rate) = RMul(out.predicted_net_profit, R(100))

\* a fallback prediction with costs and a positive rate
C7_Witness ==
    /\ Predicted /\ ~out.used_ml_model
    /\ RGt(Rate, Zero)
    /\ RGt(out.predicted_total_cost, Zero)
    /\ out.predicted_net_profit # Rate

\* the decision table as the specification words it
StatedTable(margin_pct, fuel_ratio) ==
    IF RLt(margin_pct, R(5))
    THEN [risk |-> "high",
          rec |-> IF RLe(margin_pct, Zero) THEN "reject" ELSE "review"]
    ELSE IF RLt(margin_pct, R(15)) \/ RGt(fuel_ratio, Half)
    THEN [risk |-> "medium", rec |-> "review"]
    ELSE [risk |-> "low", rec |-> "accept"]

\* C8: on both paths risk and recommendation follow the stated table: below
\* 5% high risk, reject at or below 0 and review above it; below 15% or a
\* fuel-cost ratio above 0.50 medium and review; otherwise low and accept.
C8_DecisionTable ==
    Predicted =>
        LET t == StatedTable(out.margin_pct, out.fuel_ratio)
        IN  out.risk_level = t.risk /\ out.recommendation = t.rec

\* reject > review > accept
Conservatism(rec) ==
    CASE rec = "reject" -> 2 [] rec = "review" -> 1 [] rec = "accept" -> 0

\* margins compared with the one of the prediction made
MarginGrid ==
    {R(-10), Zero, R(3), R(5), R(10), Frac(29, 2), R(15), R(20), R(50)}

\* C9: at a fixed fuel-cost ratio the recommendation never gets more
\* conservative as the margin rises: against the margin and recommendation of
\* the prediction, every higher margin is recommended no more conservatively
\* and every lower margin no less.
C9_Monotone ==
    Predicted =>
        \A m \in MarginGrid :
            LET other == Conservatism(_score_risk(m, out.fuel_ratio).rec)
                mine == Conservatism(out.recommendation)
            IN  /\ RLe(out.margin_pct, m) => other <= mine
                /\ RLe(m, out.margin_pct) => mine <= other

\* a prediction under review with margins of the grid on both sides
C9_Witness ==
    /\ Predicted /\ out.recommendation = "review"
    /\ RLe(R(5), out.margin_pct) /\ RLt(out.margin_pct, R(15))
    /\ RLe(out.fuel_ratio, Half)

\* C10: on the fallback path a fuel cost above half of the total cost, at a
\* margin of 15% or more, gives medium risk.
C10_FuelShareOfCost ==
    ( /\ Predicted /\ ~out.used_ml_model
      /\ RGt(out.predicted_total_cost, Zero)
      /\ RGt(RDiv(out.fuel_cost, IF out.predicted_total_cost = Zero THEN R(1)
                                 ELSE out.predicted_total_cost), Half)
      /\ RLe(R(15), out.margin_pct) )
        => out.risk_level = "medium"

\* ---- feature importances and the feature vector

\* C11: the feature_importances weights of every prediction sum to 1, on the
\* trained path and on the fallback path.
C11_ImportancesSumToOne ==
    Predicted => RSum(out.feature_importances) = R(1)

Built == vector # None

Feature(name) == vector[FeatureIndex(name)]

\* C12: whatever the fuel_type string, the vector build_feature_vector returns
\* has 23 entries and its four one-hot energy-type entries sum to exactly 1.
C12_OneHotSumsToOne ==
    Built =>
        /\ Len(vector) = 23
        /\ RSum(SubSeq(vector, FeatureIndex("fuel_type_diesel"),
                        FeatureIndex("fuel_type_petrol"))) = R(1)

\* a number, neither infinite nor undefined
Finite(x) == x.d > 0

NonPositive(x) == RLe(x, Zero)

\* C13: a ratio whose denominator is zero or negative is exactly 0 and every
\* number returned is finite: km_per_hour, rate_per_km, toll_ratio and
\* fuel_cost_ratio of the feature vector, margin_pct on both prediction paths,
\* and the cost shares of the fallback path.
C13_GuardedRatios ==
    /\ Built =>
        /\ \A i \in 1..Len(vector) : Finite(vector[i])
        /\ NonPositive(job.estimated_duration_hours) => Feature("km_per_hour") = Zero
        /\ NonPositive(job.distance_km) => Feature("rate_per_km") = Zero
        /\ NonPositive(Rate) =>
            Feature("toll_ratio") = Zero /\ Feature("fuel_cost_ratio") = Zero
    /\ Predicted =>
        /\ Finite(out.margin_pct) /\ Finite(out.fuel_ratio)
        /\ Finite(out.predicted_net_profit) /\ Finite(out.predicted_total_cost)
        /\ \A i \in 1..Len(out.feature_importances) :
            Finite(out.feature_importances[i])
        /\ NonPositive(Rate) => out.margin_pct = Zero
        /\ (~out.used_ml_model /\ NonPositive(out.predicted_total_cost)) =>
            \A i \in 1..Len(out.feature_importances) :
                out.feature_importances[i] = Zero

\* a job of negative rate, distance and total cost and zero duration, with
\* tolls, its vector built and its fallback prediction made
C13_Witness ==
    /\ Built /\ Predicted /\ ~out.used_ml_model
    /\ RLt(Rate, Zero) /\ RLt(job.distance_km, Zero)
    /\ job.estimated_duration_hours = Zero
    /\ job.toll_costs # Zero
    /\ RLt(out.predicted_total_cost, Zero)
    /\ out.predicted_net_profit # Zero

\* ---- benchmarking (SpecBenchmark)
Returned == bpc = "done"

\* the fleets whose averages the aggregation of this request read
Aggregated == Cardinality(bhist.fleets)

C15_ColdStart ==
    (Returned /\ bres.fleet_metrics.job_count = 0) =>
        /\ bres.insufficient_data
        /\ bres.fleet_percentile = None
        /\ bres.industry_context = None
        /\ bhist.queries = 0

\* a fleet without jobs whose bucket holds three qualifying fleets
C15_Witness ==
    /\ Returned /\ bres.fleet_metrics.job_count = 0
    /\ Cardinality(per_fleet(db, bres.fleet_metrics.fleet_size_bucket)) >= 3

\* C16: a fleet whose average margin is the p50 margin of its bucket gets a
\* percentile of about 50 (49 to 51).
C16_MedianIsFifty ==
    ( /\ Returned /\ bres.industry_context # None
      /\ bres.fleet_metrics.avg_margin_pct = bres.industry_context.p50_margin_pct )
        => bres.fleet_percentile \in {Some(49), Some(50), Some(51)}

\* ---- trend detection
Detected == trend # NoTrend

\* the weeks of the series that have at least 5 jobs
QualifyingWeeks == {i \in 1..Len(series) : series[i].job_count >= 5}

\* the margins of the qualifying weeks, in the order of the series
QualifyingMargins ==
    LET RECURSIVE pick(_)
        pick(i) == IF i > Len(series) THEN <<>>
                   ELSE IF i \in QualifyingWeeks
                   THEN <<series[i].avg_margin_pct>> \o pick(i + 1)
                   ELSE pick(i + 1)
    IN  pick(1)

\* C17: weeks with fewer than 5 jobs are dropped before the fit, and when fewer
\* than 4 qualifying weeks remain the result is trend "unknown", confidence
\* "insufficient_data", alert false, and neither slope nor R2 is computed
C17_ThinWeeksDropped ==
    Detected =>
        /\ trend.weeks_analyzed = Cardinality(QualifyingWeeks)
        /\ \A i \in 1..Len(trend.data_points) :
               trend.data_points[i].job_count >= 5
        /\ Cardinality(QualifyingWeeks) >= 4 =>
               trend.slope_pct_per_week =
                   Some(round(polyfit(QualifyingMargins).slope, 3))
        /\ Cardinality(QualifyingWeeks) < 4 =>
               /\ trend.trend = "unknown"
               /\ trend.confidence = "insufficient_data"
               /\ trend.alert = FALSE
               /\ trend.slope_pct_per_week = None
               /\ trend.r2 = None

\* a series of six weeks of which only three have 5 jobs or more
C17_Witness ==
    /\ Detected
    /\ Len(series) = 6
    /\ Cardinality(QualifyingWeeks) = 3
    /\ trend.trend = "unknown"
    /\ trend.weeks_analyzed = 3

\* all qualifying weeks have the same margin
IdenticalMargins ==
    \A i, j \in QualifyingWeeks :
        series[i].avg_margin_pct = series[j].avg_margin_pct

C19_AlertOnlyOnDecline ==
    Detected =>
        /\ trend.alert <=>
               trend.trend = "declining" /\ trend.confidence \in {"medium", "high"}
        /\ trend.trend = "improving" /\ trend.confidence = "high" =>
               trend.alert = FALSE /\ trend.alert_message # None

\* an improving trend at high confidence: a message, and no alert
C19_Witness ==
    /\ Detected
    /\ trend.trend = "improving"
    /\ trend.confidence = "high"
    /\ trend.alert_message = Some("strong_improvement")
    /\ trend.alert = FALSE

\* a declining trend that raises the alert
C19_WitnessDeclining ==
    Detected /\ trend.trend = "declining" /\ trend.alert

\* ---- anomaly detection
Scanned == report # NoReport

\* C20: a baseline of fewer than 10 jobs gives insufficient_baseline = true and
\* no anomaly, however extreme the recent jobs are
C20_SmallBaselineNoAnomalies ==
    Scanned /\ stats.n < 10 =>
        /\ report.insufficient_baseline = TRUE
        /\ report.n_anomalies = 0
        /\ report.anomalies = <<>>

\* a baseline of 9 jobs around 20% and a recent job at -150%
C20_Witness ==
    /\ Scanned
    /\ stats.n = 9
    /\ stats.stddev_margin = Some(R(5))
    /\ \E i \in 1..Len(recent) : recent[i].margin_pct = R(-150)
    /\ report.insufficient_baseline = TRUE
    /\ report.n_anomalies = 0

\* the entries of the report of one kind
Reported(kind) ==
    {i \in 1..Len(report.anomalies) : report.anomalies[i].anomaly_type = kind}

\* C21: when the standard deviation of the baseline margin (of the baseline
\* cost) is zero, no margin (cost) Z-score is computed and no anomaly of that
\* kind is reported for any recent job
C21_ZeroStddevSuppresses ==
    Scanned =>
        /\ stats.stddev_margin = Some(Zero) =>
               Reported("margin_outlier") \cup Reported("unusually_profitable") = {}
        /\ stats.stddev_total_cost = Some(Zero) => Reported("cost_spike") = {}

\* the Z-scores of recent job i against the statistics the scan works with
ZMargin(i) ==
    LET st == fleet_margin_stats(stats)
    IN  RDiv(RSub(recent[i].margin_pct, st.mean_margin), st.stddev_margin)

ZCost(i) ==
    LET st == fleet_margin_stats(stats)
    IN  RDiv(RSub(recent[i].total_cost[1], st.mean_total_cost),
             st.stddev_total_cost)

\* the rows of the threshold table that recent job i meets
TableRows(i) ==
    (IF RLt(ZMargin(i), R(-2))
     THEN {<<i, "margin_outlier",
             IF RGt(RAbs(ZMargin(i)), R(3)) THEN "high" ELSE "medium">>}
     ELSE {})
    \cup
    (IF RGt(ZMargin(i), R(2)) THEN {<<i, "unusually_profitable", "medium">>}
     ELSE {})
    \cup
    (IF recent[i].total_cost # None /\ RGt(ZCost(i), Frac(5, 2))
     THEN {<<i, "cost_spike",
             IF RGt(ZCost(i), Frac(7, 2)) THEN "high" ELSE "medium">>}
     ELSE {})

C26_FailedLoadKeepsTriple ==
    AfterLoad /\ lastDone.result = "false" /\ lastDone.pre =>
        /\ _model = _scaler /\ _scaler = _meta
        /\ _model # lastDone.version

\* a fit was attempted: at least 4 weeks of the series have 5 jobs or more
FitAttempted == Detected /\ Cardinality(QualifyingWeeks) >= 4

\* C27: whenever a fit is attempted the confidence is "high" or "medium", never
\* "low", and so every declining result has alert = true
C27_NeverLowConfidence ==
    /\ FitAttempted => trend.confidence \in {"high", "medium"}
    /\ Detected /\ trend.trend = "declining" => trend.alert = TRUE

\* a declining trend over four weeks of wide scatter: R2 under 0.15, the
\* confidence is "medium" all the same and the alert is raised
C27_Witness ==
    /\ FitAttempted
    /\ trend.weeks_analyzed = 4
    /\ trend.trend = "declining"
    /\ RLt(trend.r2[1], Frac(15, 100))
    /\ trend.confidence = "medium"
    /\ trend.alert = TRUE

\* C28: a fleet with c >= 0 active trucks passes the peer filter of the bucket
\* fleet_size_to_bucket(c) gives it, so a tenant that is compared against a
\* peer group is one of the fleets of that group
C28_BucketsAgree ==
    Returned /\ bhist.queries = 1 /\ nwrites = 0 =>
        /\ _bucket_filter(bres.fleet_metrics.fleet_size_bucket,
                          bres.fleet_metrics.truck_count)
        /\ Tenant \in bhist.fleets

\* ---- team, billing and tier gates
\* C23: an intelligence request of a member of a tier1 fleet is refused with
\* 403 "tier_required"; the same request of a member of a tier2 fleet gets 200
C23_IntelligenceTierGate ==
    \A c \in Clients :
        (resp[c].op = "get_intelligence" /\ nreq = 1 /\ users[resp[c].actor].fleet) =>
            /\ fleetRow.subscription_tier = "tier1" =>
                   resp[c].code = 403 /\ resp[c].error = "tier_required"
            /\ fleetRow.subscription_tier = "tier2" => resp[c].code = 200

\* C24: the status of an invite changes only out of "pending": an accepted,
\* revoked or expired invite keeps its status, and is never accepted
C24_InviteStatusFinal ==
    [][\A i \in 1..Len(invites) :
           invites[i].status # "pending" => invites'[i].status = invites[i].status]_vars

\* C25: every invite creation that succeeds appends "team.member_invited" to
\* the audit log of the fleet, and an owner who lists the log then sees it
C25_InviteIsAudited ==
    \A c \in Clients :
        resp[c].op = "create_invite" /\ resp[c].code = 201 =>
            \E k \in 1..Len(audit) : audit[k] = "team.member_invited"

\* C29: active members plus pending invites never exceed max_team_members of
\* the tier the fleet is on
C29_SeatsWithinLimit ==
    Cardinality(list_members(users)) + Cardinality(list_invites(invites, "pending"))
        <= max_team_members(fleetRow.subscription_tier)

\* C30: the fleet always has an active member whose role is owner
C30_AlwaysAnOwner ==
    \E u \in Users : users[u].fleet /\ users[u].role = "owner"

====
